---- MODULE Spec2Model ----
(***************************************************************************)
(* Model of the retrieval and ranking core of Novum (src/app.py):          *)
(*   api_match       POST /api/match       (src/app.py 590-933)            *)
(*   api_rag_search  POST /api/rag-search  (src/app.py 936-1250)           *)
(* and of what they rest on:                                               *)
(*   cached_get_embedding, clear_embedding_cache  (src/app.py 84-89)       *)
(*   get_embedding, cosine_similarities, chat_complete (src/classifier.py) *)
(*   the external fetch of api_match       (src/app.py 622-733)            *)
(*   the external fetch of api_rag_search  (src/app.py 975-1092)           *)
(*   api_submit_answers                    (src/app.py 1259-1316)          *)
(*   api_generate_questions                (src/app.py 423-509)            *)
(*   get_secret                            (src/gcp_secrets.py 28-77)      *)
(*   the tool endpoints of the MCP server  (src/mcp_server.py 91-190)      *)
(*                                                                         *)
(* Units.  A cosine similarity is held in units of 1e-5 (0.30 = 30000).    *)
(* A percentage is held in hundredths of a percent (35.00% = 3500), the    *)
(* resolution of round(x, 2).  The MATCH_THRESHOLD environment value is    *)
(* held in hundredths (0.10 = 10, 10 = 1000, 50 = 5000).                   *)
(* Text is a sequence of characters; a fixed label or an opaque run of     *)
(* text is one element of the sequence.                                    *)
(* Comparisons of percentages are exact: the binary rounding of            *)
(* (pct / 100.0) * 100 is not modelled (it leaves every comparison the     *)
(* model makes unchanged).                                                 *)
(***************************************************************************)
EXTENDS Integers, Sequences, FiniteSets, TLC

VARIABLES
    \* ---- api_match: the handler's position and locals
    m_pc,               \* "idle" | "local" | "ext_filter" | "ext_score" | "finish" | "done"
    preferred_location, \* payload.preferred_location, lowercased (line 603)
    job_type,           \* payload.job_type, lowercased (line 604)
    n_local_jobs,       \* len(local_jobs)
    n_external_jobs,    \* len(external_jobs)
    m_i,                \* jobs of the running loop already visited
    m_job,              \* the loop variable j of the iteration just run
    m_decision,         \* what that iteration did with j
    local_matches,
    candidate_external,
    external_matches,
    threshold_env,      \* float(os.getenv("MATCH_THRESHOLD", "50")) as read at line 857
    m_resp,             \* the response of api_match
    fetch,              \* how the external fetch of lines 622-733 ended
    resume_emb,         \* cached_get_embedding(resume_text) of line 745
    m_calls,            \* the collaborators api_match has called so far
    m_request,          \* the payload, when no resume could be resolved from it
    \* ---- api_rag_search: the handler's position and locals
    r_pc,               \* "idle" | "rerank" | "sort" | "done"
    top_k,
    rerank,
    rag_floor_env,      \* float(os.getenv("RAG_MIN_SIMILARITY", "0.3"))
    sims,               \* cosine_similarity([resume_emb], job_embeddings)[0]
    min_similarity,     \* the floor in effect after line 1150
    relaxations,        \* how many times the floor was relaxed in this call
    raw_results,
    r_i,                \* raw results the loop of line 1178 has visited
    llm_outs,           \* what chat_complete did for each raw result, in order
    results,
    r_resp,             \* the response of api_rag_search
    r_calls,            \* the collaborators api_rag_search has called so far (the
                        \* job pool stands for its external fetch, whose calls
                        \* are not recorded)
    r_request,          \* the payload, when no resume could be resolved from it
    \* ---- cached_get_embedding (src/app.py 84-89)
    embedding_cache,    \* the entries of the lru_cache, least recently used first
    c_log,              \* per text, since it was last absent from the cache: the calls
                        \* made with it, the calls get_embedding got, the vectors returned
    c_last,             \* the last call: its text, its backends, what it returned
    c_threads,          \* per request thread: the call of cached_get_embedding it
                        \* is in, and what its last call did
    \* ---- the external fetch of api_match (src/app.py 622-733) and that of
    \* ---- api_rag_search (src/app.py 975-1092)
    handler,            \* "none" | "match" | "rag": the handler that fetches
    f_pc,               \* "idle" | "query" | "request" | "items" | "done"
    f_resume,           \* resume_text
    f_chat,             \* what the call of chat_complete did
    query,              \* the q of the request
    f_items,            \* data["jobs_results"], each item by its name
    external_jobs,      \* external_jobs at line 733
    f_outcome,          \* how the fetch ended: "no_key", "ok", or a failure
    \* ---- api_submit_answers (src/app.py 1259-1316)
    s_pc,               \* "idle" | "loop" | "finish" | "done"
    n_questions,        \* len(questions)
    s_outs,             \* what chat_complete returned for each answer visited
    s_results,          \* the score each visited answer added to total_score
    total_score,
    pass_threshold,     \* float(os.getenv("PASS_THRESHOLD", "60")), in hundredths
    saved,              \* save_application was called
    s_resp,             \* the response of api_submit_answers
    \* ---- get_secret (src/gcp_secrets.py 28-77)
    g_env,              \* os.getenv(secret_id)
    secret_cache,       \* the entries of the lru_cache of get_secret
    g_last,             \* the last call of get_secret
    \* ---- api_generate_questions (src/app.py 423-509)
    q_last,             \* the last call: the job, the payload, what chat_complete
                        \* and the database did, the response
    q_saved,            \* the questions column of the job
    \* ---- the tool endpoints of the MCP server (src/mcp_server.py 91-190)
    t_last,             \* the last call: the tool, its arguments, the response
    t_requests          \* the outbound requests made so far, in order

m_vars == <<m_pc, preferred_location, job_type, n_local_jobs, n_external_jobs, m_i,
            m_job, m_decision, local_matches, candidate_external, external_matches,
            threshold_env, m_resp, fetch, resume_emb, m_calls, m_request>>

r_vars == <<r_pc, top_k, rerank, rag_floor_env, sims, min_similarity, relaxations,
            raw_results, r_i, llm_outs, results, r_resp, r_calls, r_request>>

c_vars == <<embedding_cache, c_log, c_last, c_threads>>

f_vars == <<handler, f_pc, f_resume, f_chat, query, f_items, external_jobs, f_outcome>>

s_vars == <<s_pc, n_questions, s_outs, s_results, total_score, pass_threshold, saved,
            s_resp>>

g_vars == <<g_env, secret_cache, g_last>>

q_vars == <<q_last, q_saved>>

t_vars == <<t_last, t_requests>>

vars == <<m_vars, r_vars, c_vars, f_vars, s_vars, g_vars, q_vars, t_vars>>

-----------------------------------------------------------------------------
(* Bounds of the model *)

MaxLocal == 2

MaxExternal == 2

MaxPool == 3

MaxTopK == 2

\* the size of the embedding cache in the model; it stands for maxsize=1024
CacheSize == 2

\* calls of cached_get_embedding counted per text
MaxCalls == 2

\* runs of items in a provider payload
MaxRuns == 2

\* questions of a submission
MaxQuestions == 3

\* skills of a job
MaxSkills == 4

\* outbound requests of the tool endpoints that are followed
MaxToolCalls == 3

-----------------------------------------------------------------------------
(* Text: str.lower, the `in` operator, str.strip, str.join *)

Uppers ==
    << "A", "B", "C", "D", "E", "F", "G", "H", "I", "J", "K", "L", "M", "N",
       "O", "P", "Q", "R", "S", "T", "U", "V", "W", "X", "Y", "Z" >>

Lowers ==
    << "a", "b", "c", "d", "e", "f", "g", "h", "i", "j", "k", "l", "m", "n",
       "o", "p", "q", "r", "s", "t", "u", "v", "w", "x", "y", "z" >>

IsUpper(c) == \E k \in 1..26 : Uppers[k] = c

IsLetter(c) == IsUpper(c) \/ \E k \in 1..26 : Lowers[k] = c

LowerChar(c) ==
    IF IsUpper(c) THEN Lowers[CHOOSE k \in 1..26 : Uppers[k] = c] ELSE c

Lower(s) == [k \in 1..Len(s) |-> LowerChar(s[k])]

\* needle in hay
Contains(hay, needle) ==
    \E k \in 0..(Len(hay) - Len(needle)) :
        \A n \in 1..Len(needle) : hay[k + n] = needle[n]

IsSpace(c) == c \in {" ", "\n", "\t"}

\* s.strip() is non-empty
StripNonEmpty(s) == \E k \in 1..Len(s) : ~IsSpace(s[k])

RECURSIVE Join(_, _)
Join(sep, parts) ==
    IF Len(parts) = 0 THEN <<>>
    ELSE IF Len(parts) = 1 THEN parts[1]
    ELSE parts[1] \o sep \o Join(sep, Tail(parts))

\* s[:n], n >= 0
Take(s, n) == SubSeq(s, 1, IF n <= Len(s) THEN n ELSE Len(s))

\* the classes of characters the scans below tell apart
InClass(c, class) ==
    LET \* \w of a regular expression
        IsWordChar ==
            \/ IsLetter(c)
            \/ c \in {"0", "1", "2", "3", "4", "5", "6", "7", "8", "9"}
            \/ c = "_"
    IN
    CASE class = "space" -> IsSpace(c)
      [] class = "not_space" -> ~IsSpace(c)
      [] class = "word" -> IsWordChar
      [] class = "not_word" -> ~IsWordChar
      [] class = "not_newline" -> c # "\n"

\* the first place from i on whose character is not in the class, Len(s) + 1
\* when there is none
RECURSIVE RunEnd(_, _, _)
RunEnd(s, i, class) ==
    IF i <= Len(s) /\ InClass(s[i], class) THEN RunEnd(s, i + 1, class) ELSE i

\* the last place up to i whose character is not whitespace, 0 when there is none
RECURSIVE LastNonSpace(_, _)
LastNonSpace(s, i) ==
    IF i >= 1 /\ IsSpace(s[i]) THEN LastNonSpace(s, i - 1) ELSE i

\* s.strip(): the whitespace at the left end goes, then that at the right end
Strip(s) ==
    LET l == SubSeq(s, RunEnd(s, 1, "space"), Len(s))
    IN  SubSeq(l, 1, LastNonSpace(l, Len(l)))

\* s.replace(c, '') for a one-character c
Remove(s, c) == LET Keep(x) == x # c IN SelectSeq(s, Keep)

\* s.startswith(prefix)
StartsWith(s, prefix) ==
    Len(s) >= Len(prefix) /\ SubSeq(s, 1, Len(prefix)) = prefix

\* from place i on, the maximal runs of characters of the class, which
\* characters of the class between separate
RECURSIVE RunsFrom(_, _, _, _)
RunsFrom(s, i, class, between) ==
    LET a == RunEnd(s, i, between)
        b == RunEnd(s, a, class)
    IN  IF a > Len(s) THEN <<>>
        ELSE <<SubSeq(s, a, b - 1)>> \o RunsFrom(s, b, class, between)

\* s.split(): the maximal runs of characters that are not whitespace
Split(s) == RunsFrom(s, 1, "not_space", "space")

\* s.split('\n'): the pieces between the newlines, empty ones included
RECURSIVE LinesFrom(_, _)
LinesFrom(s, i) ==
    LET b == RunEnd(s, i, "not_newline")
    IN  IF b > Len(s) THEN <<SubSeq(s, i, Len(s))>>
        ELSE <<SubSeq(s, i, b - 1)>> \o LinesFrom(s, b + 1)

\* w.isalpha()
IsAlpha(w) == Len(w) > 0 /\ \A k \in 1..Len(w) : IsLetter(w[k])

\* w.title() for a word of letters
Title(w) ==
    [k \in 1..Len(w) |->
        IF k = 1 /\ \E n \in 1..26 : Lowers[n] = w[k]
        THEN Uppers[CHOOSE n \in 1..26 : Lowers[n] = w[k]]
        ELSE LowerChar(w[k])]


-----------------------------------------------------------------------------
(* Job records.  A local job is a row of list_jobs(); an external job is a   *)
(* job_data record built from a provider item (lines 707-716).               *)

NoLocation == [is_str |-> FALSE, s |-> <<>>]

Loc(s) == [is_str |-> TRUE, s |-> s]

Job(source, title, description, skills, responsibilities, qualifications, location) ==
    [source |-> source, title |-> title, description |-> description,
     skills |-> skills, responsibilities |-> responsibilities,
     qualifications |-> qualifications, location |-> location]

NoJob == Job("none", <<>>, <<>>, <<>>, <<>>, <<>>, NoLocation)

\* The catalog rows the model draws local jobs from
LocalPool ==
    { Job("local", <<"Q","A">>, <<"o","p","s">>, <<>>, <<>>, <<>>, NoLocation),
      Job("local", <<"M","L">>, <<"a","n","y">>, << <<"q","a">> >>, <<>>, <<>>,
          Loc(<<"N","Y","C">>)),
      Job("local", <<"M","L">>, <<"o","p","s">>, <<>>, << <<"c","i">> >>, <<>>,
          Loc(<<"L","A">>)),
      Job("local", <<"Q","A">>, <<" ">>, <<>>, <<>>, <<>>, NoLocation) }

\* The normalized provider items the model draws external jobs from
ExternalPool ==
    { Job("external", <<"Q","A">>, <<"a","n","y">>, <<>>, <<>>, <<>>, Loc(<<"N","Y","C">>)),
      Job("external", <<"M","L">>, <<"o","p","s">>, <<>>, <<>>, <<>>, Loc(<<"N","Y","C">>)),
      Job("external", <<"M","L">>, <<"o","p","s">>, <<>>, <<>>, <<>>, Loc(<<>>)) }

\* full_job_desc of a local job (lines 753-765)
FullJobDesc(j) ==
    j.description
      \o (IF Len(j.skills) > 0
          THEN <<"\n\nRequired Skills: ">> \o Join(<<",", " ">>, j.skills) ELSE <<>>)
      \o (IF Len(j.responsibilities) > 0
          THEN <<"\n\nResponsibilities:\n">> \o Join(<<"\n">>, j.responsibilities) ELSE <<>>)
      \o (IF Len(j.qualifications) > 0
          THEN <<"\n\nQualifications:\n">> \o Join(<<"\n">>, j.qualifications) ELSE <<>>)

\* loc of lines 790 and 818
JobLoc(j) == IF j.location.is_str THEN Lower(j.location.s) ELSE <<>>

-----------------------------------------------------------------------------
(* Filters of api_match *)

\* the location filter without the lenience for a job that has no location
LocalLocationExcludesStrict(j, pl) ==
    pl # <<>> /\ ~Contains(JobLoc(j), pl)

\* line 794
LocalLocationExcludes(j, pl) ==
    pl # <<>> /\ JobLoc(j) # <<>> /\ ~Contains(JobLoc(j), pl)

\* line 799
LocalJobTypeExcludes(j, jt) ==
    jt # <<>> /\ jt # <<"a","n","y">>
        /\ ~Contains(Lower(j.title \o <<" ">> \o FullJobDesc(j)), jt)

\* line 820
ExternalLocationExcludes(j, pl) ==
    pl # <<>> /\ ~Contains(JobLoc(j), pl)

\* line 822
ExternalJobTypeExcludes(j, jt) ==
    jt # <<>> /\ ~Contains(Lower(j.title \o <<" ">> \o j.description), jt)

-----------------------------------------------------------------------------
(* Embeddings: get_embedding (src/classifier.py 60-83) *)

\* the length of a text-embedding-004 vector, and of np.zeros(768)
VertexDim == 768

\* the length of a text-embedding-3-small vector, and of np.zeros(1536)
OpenAiDim == 1536

\* a vector, as far as the program looks at it: its length, and whether it is
\* all zeros
Vec(dim, zero) == [dim |-> dim, zero |-> zero]

NoVec == Vec(0, TRUE)

\* what the two backends do during one call: USE_VERTEX, whether the Vertex
\* request succeeds, whether the OpenAI request succeeds.  USE_VERTEX is fixed
\* when the module is loaded; a call with USE_VERTEX false returns what a call
\* with USE_VERTEX true and a failing Vertex request returns.
Backends == [use_vertex : BOOLEAN, vertex_ok : BOOLEAN, openai_ok : BOOLEAN]

\* get_embedding(text)
GetEmbedding(text, b) ==
    IF ~StripNonEmpty(text) THEN Vec(VertexDim, TRUE)
    ELSE IF b.use_vertex /\ b.vertex_ok THEN Vec(VertexDim, FALSE)
    ELSE IF b.openai_ok THEN Vec(OpenAiDim, FALSE)
    ELSE Vec(OpenAiDim, TRUE)

\* the backend requests one call of get_embedding makes
BackendRequests(text, b) ==
    IF ~StripNonEmpty(text) THEN 0
    ELSE (IF b.use_vertex THEN 1 ELSE 0)
         + (IF b.use_vertex /\ b.vertex_ok THEN 0 ELSE 1)

-----------------------------------------------------------------------------
(* cached_get_embedding and clear_embedding_cache (src/app.py 84-89) *)

\* the texts the model calls the cache with: two texts, a blank one, the empty one
CacheTexts == { <<"a">>, <<"b">>, <<" ">>, <<>> }

Cached(cache) == { cache[k].text : k \in 1..Len(cache) }

\* a cache that stores nothing
NeverStored(cache, text, vec) == cache

\* the cache after a call with text that returned vec: the entry is the most
\* recently used one, and the least recently used one is dropped when the
\* cache is over its size
Stored(cache, text, vec) ==
    LET Other(e) == e.text # text
        c == Append(SelectSeq(cache, Other), [text |-> text, vec |-> vec])
    IN  IF Len(c) > CacheSize THEN Tail(c) ELSE c

NoLog == [calls |-> 0, embedder |-> 0, vecs |-> {}]

\* The request threads of the server: app.run (line 1371) serves each request
\* in a thread of its own; two of them are followed
Threads == { "t1", "t2" }

CacheInit ==
    /\ c_threads = [t \in Threads |->
                        [pc |-> "idle", text |-> <<>>, vec |-> NoVec,
                         called |-> FALSE, raced |-> FALSE, kept |-> NoVec]]
    /\ embedding_cache = <<>>
    /\ c_log = [t \in CacheTexts |-> NoLog]
    /\ c_last = [text |-> <<>>,
                 b |-> [use_vertex |-> FALSE, vertex_ok |-> FALSE, openai_ok |-> FALSE],
                 vec |-> NoVec, requests |-> 0, hit |-> FALSE, made |-> FALSE]

\* cached_get_embedding(text), lines 84-86
CachedGetEmbedding ==
    /\ UNCHANGED <<m_vars, r_vars, f_vars, s_vars, g_vars, q_vars, t_vars>>
    /\ \E text \in CacheTexts, b \in Backends :
          LET hit == text \in Cached(embedding_cache)
              at == CHOOSE k \in 1..Len(embedding_cache) :
                        embedding_cache[k].text = text
              vec == IF hit THEN embedding_cache[at].vec ELSE GetEmbedding(text, b)
              cache == Stored(embedding_cache, text, vec)
          IN
          /\ c_log[text].calls < MaxCalls
          /\ embedding_cache' = cache
          /\ c_last' = [text |-> text, b |-> b, vec |-> vec,
                        requests |-> IF hit THEN 0 ELSE BackendRequests(text, b),
                        hit |-> hit, made |-> TRUE]
          /\ c_log' = [t \in CacheTexts |->
                          IF t = text
                          THEN [calls |-> c_log[t].calls + 1,
                                embedder |-> c_log[t].embedder + (IF hit THEN 0 ELSE 1),
                                vecs |-> c_log[t].vecs \cup {vec}]
                          ELSE IF t \in Cached(cache) THEN c_log[t]
                          ELSE NoLog]
    /\ c_threads' = c_threads

\* clear_embedding_cache(), lines 88-89
ClearEmbeddingCache ==
    /\ UNCHANGED <<m_vars, r_vars, f_vars, s_vars, g_vars, q_vars, t_vars>>
    /\ embedding_cache # <<>>
    /\ embedding_cache' = <<>>
    /\ c_log' = [t \in CacheTexts |-> NoLog]
    /\ c_last' = c_last
    /\ c_threads' = c_threads

CacheNext ==
    \/ CachedGetEmbedding
    \/ ClearEmbeddingCache

\* cached_get_embedding(text) in a request thread, up to the call of
\* get_embedding: the wrapper of lru_cache (line 84) looks the text up; on a
\* hit it returns the stored vector and makes the entry the most recently used
\* one, on a miss it calls get_embedding (line 86) without holding a lock
CacheLookup ==
    /\ UNCHANGED <<m_vars, r_vars, f_vars, s_vars, g_vars, q_vars, t_vars>>
    /\ \E t \in Threads, text \in CacheTexts :
          LET hit == text \in Cached(embedding_cache)
              at == CHOOSE k \in 1..Len(embedding_cache) :
                        embedding_cache[k].text = text
              raced == \E u \in Threads \ {t} :
                          c_threads[u].pc = "embedding" /\ c_threads[u].text = text
          IN
          /\ c_threads[t].pc = "idle"
          /\ IF hit
             THEN /\ embedding_cache' = Stored(embedding_cache, text,
                                               embedding_cache[at].vec)
                  /\ c_threads' = [c_threads EXCEPT ![t] =
                        [pc |-> "idle", text |-> text, vec |-> embedding_cache[at].vec,
                         called |-> FALSE, raced |-> FALSE, kept |-> NoVec]]
             ELSE /\ embedding_cache' = embedding_cache
                  /\ c_threads' = [c_threads EXCEPT ![t] =
                        [pc |-> "embedding", text |-> text, vec |-> NoVec,
                         called |-> TRUE, raced |-> raced, kept |-> NoVec]]
    /\ UNCHANGED <<c_log, c_last>>

\* cached_get_embedding(text) in a request thread, from the return of
\* get_embedding on: the wrapper stores the vector unless the text has been
\* stored in the meantime, and returns the vector get_embedding gave it
CacheFill ==
    /\ UNCHANGED <<m_vars, r_vars, f_vars, s_vars, g_vars, q_vars, t_vars>>
    /\ \E t \in Threads, b \in Backends :
          LET text == c_threads[t].text
              vec == GetEmbedding(text, b)
              there == text \in Cached(embedding_cache)
              at == CHOOSE k \in 1..Len(embedding_cache) :
                        embedding_cache[k].text = text
          IN
          /\ c_threads[t].pc = "embedding"
          /\ embedding_cache' = IF there THEN embedding_cache
                                ELSE Stored(embedding_cache, text, vec)
          /\ c_threads' = [c_threads EXCEPT ![t] =
                [pc |-> "idle", text |-> text, vec |-> vec, called |-> TRUE,
                 raced |-> c_threads[t].raced,
                 kept |-> IF there THEN embedding_cache[at].vec ELSE vec]]
    /\ UNCHANGED <<c_log, c_last>>


-----------------------------------------------------------------------------
(* Scoring *)

\* What computing one similarity does: a cosine value, or an exception
Cos(c) == [ok |-> TRUE, cos |-> c]

\* cosine_similarities(vec1, vec2); o is the cosine of the pair when both are
\* non-zero vectors of one length.  sklearn checks the two shapes and raises
\* when they differ, and gives 0 for a vector of norm 0.
CosineSimilarities(vec1, vec2, o) ==
    IF vec1.dim # vec2.dim THEN [ok |-> FALSE, cos |-> 0]
    ELSE IF vec1.zero \/ vec2.zero THEN Cos(0)
    ELSE o

\* pct = round(sim * 100, 2), in hundredths of a percent
RoundPct(cos) == (cos + 5) \div 10

Match(source, id, pct) == [source |-> source, id |-> id, similarity |-> pct]

\* one iteration of the loop of lines 751-807
LocalDecision(j, o, pl, jt) ==
    IF ~StripNonEmpty(FullJobDesc(j)) THEN "empty"
    ELSE IF ~o.ok THEN "error"
    ELSE IF LocalLocationExcludes(j, pl) THEN "location"
    ELSE IF LocalJobTypeExcludes(j, jt) THEN "job_type"
    ELSE "kept"

\* one iteration of the loop of lines 817-824
ExternalDecision(j, pl, jt) ==
    IF ExternalLocationExcludes(j, pl) THEN "location"
    ELSE IF ExternalJobTypeExcludes(j, jt) THEN "job_type"
    ELSE "candidate"

\* a sort that leaves the list as it is
Unsorted(ms) == ms

\* sorted(ms, key=lambda x: -x["similarity"]): stable, descending
RECURSIVE InsertDesc(_, _)
InsertDesc(m, sorted) ==
    IF Len(sorted) = 0 THEN <<m>>
    ELSE IF Head(sorted).similarity >= m.similarity
         THEN <<Head(sorted)>> \o InsertDesc(m, Tail(sorted))
         ELSE <<m>> \o sorted

RECURSIVE SortDesc(_)
SortDesc(ms) ==
    IF Len(ms) = 0 THEN <<>>
    ELSE InsertDesc(ms[Len(ms)], SortDesc(SubSeq(ms, 1, Len(ms) - 1)))

-----------------------------------------------------------------------------
(* Threshold, filtering and backfill of api_match (lines 856-901) *)

\* the floor of line 863, 40.0 percent
MinThresholdPct == 4000

\* the backfill floor of line 897, 30.0 percent
BackfillFloorPct == 3000

\* the threshold without the clamp of line 863
EffectiveThresholdUnclamped(env) ==
    IF env < 100 THEN env * 100 ELSE env

\* threshold_pct of lines 857-863
EffectiveThreshold(env) ==
    LET threshold_pct == IF env < 100 THEN env * 100 ELSE env
    IN  IF threshold_pct >= MinThresholdPct THEN threshold_pct ELSE MinThresholdPct

\* a filter that keeps every match
AtLeastNothing(ms, pct) == ms

\* [m for m in ms if m["similarity"] * 100 >= pct]
AtLeast(ms, pct) ==
    LET Pass(m) == m.similarity >= pct IN SelectSeq(ms, Pass)

OfSource(ms, source) ==
    LET Is(m) == m.source = source IN SelectSeq(ms, Is)

\* the threshold filter without the backfill of lines 895-901
FilteredWithoutBackfill(lm, em, threshold_pct) ==
    AtLeast(lm \o em, threshold_pct)

\* filtered of lines 883-901; lm and em are the sorted groups
Filtered(lm, em, threshold_pct) ==
    LET first == AtLeast(lm \o em, threshold_pct)
        filtered_local_count == Len(OfSource(first, "local"))
        local_above_30 == AtLeast(lm, BackfillFloorPct)
        NotLocal(m) == m.source # "local"
    IN  IF Len(lm) > 0 /\ filtered_local_count = 0 /\ Len(local_above_30) > 0
        THEN local_above_30 \o SelectSeq(first, NotLocal)
        ELSE first

\* message of lines 904-916
Message(matches, filtered, nl, ne) ==
    IF Len(filtered) > 0 THEN [kind |-> "none", n |-> 0, top_sim |-> 0]
    ELSE IF Len(matches) > 0
         THEN [kind |-> "below_threshold", n |-> Len(matches),
               top_sim |-> matches[1].similarity]
    ELSE IF nl = 0 /\ ne = 0 THEN [kind |-> "no_jobs", n |-> 0, top_sim |-> 0]
    ELSE [kind |-> "filters", n |-> 0, top_sim |-> 0]

NoBody == [matches |-> <<>>, local_matches |-> <<>>, external_matches |-> <<>>,
           threshold_pct |-> 0,
           message |-> [kind |-> "none", n |-> 0, top_sim |-> 0]]

\* kind: "none" no response yet | "bad_request" | "no_jobs" | "matches" | "error"
Response(kind, status, body) == [kind |-> kind, status |-> status, body |-> body]

-----------------------------------------------------------------------------
(* The resume of a request (lines 600-614 and 947-962) *)

\* user_id: the payload has one; stored: get_latest_resume(user_id) gives a row
\* with text
\* the resume_text of a payload: the key is absent, its value is null, a string
\* that is empty or blank, or a string with text
Requests ==
    [resume_text : { "absent", "null", "blank", "text" }, user_id : BOOLEAN,
     stored : BOOLEAN]

\* what m_request and r_request hold when a resume was resolved
Resolved == [resume_text |-> "text", user_id |-> FALSE, stored |-> FALSE]

\* lines 601-614: (payload.get("resume_text") or "").strip(), then the lookup
MatchResume(req) ==
    IF req.resume_text = "text" THEN "payload"
    ELSE IF req.user_id /\ req.stored THEN "stored"
    ELSE "missing"

\* lines 948-962: payload.get("resume_text", "").strip() is called on the value
\* of the key, and the value null has no strip()
RagResume(req) ==
    IF req.resume_text = "null" THEN "raised"
    ELSE IF req.resume_text = "text" THEN "payload"
    ELSE IF req.user_id /\ req.stored THEN "stored"
    ELSE "missing"

-----------------------------------------------------------------------------
(* api_match *)

MatchInit ==
    /\ m_pc = "idle"
    /\ preferred_location = <<>>
    /\ job_type = <<>>
    /\ n_local_jobs = 0
    /\ n_external_jobs = 0
    /\ m_i = 0
    /\ m_job = NoJob
    /\ m_decision = "none"
    /\ local_matches = <<>>
    /\ candidate_external = <<>>
    /\ external_matches = <<>>
    /\ threshold_env = 0
    /\ m_resp = Response("none", 0, NoBody)
    /\ fetch = "none"
    /\ resume_emb = NoVec
    /\ m_calls = {}
    /\ m_request = Resolved

FetchFailures == { "network", "timeout", "http", "payload" }

\* a fetch that keeps the items it had normalised when it failed
ExternalJobsPartial(f, built) == built

\* len(external_jobs) after line 733, built being the number of items the loop
\* of line 689 had put in company_jobs[:10] + other_jobs[:5] when the fetch
\* ended: external_jobs is assigned at line 724 only
ExternalJobsKept(f, built) == IF f = "ok" THEN built ELSE 0

AfterLocal(ne) == IF ne > 0 THEN "ext_filter" ELSE "finish"

\* lines 599-614: no resume can be resolved
ApiMatchMissingResume ==
    /\ UNCHANGED <<r_vars, c_vars, f_vars, s_vars, g_vars, q_vars, t_vars>>
    /\ m_pc = "idle" /\ r_pc = "idle"
    /\ \E req \in Requests :
          /\ MatchResume(req) = "missing"
          /\ m_request' = req
    /\ m_pc' = "done"
    /\ m_resp' = Response("bad_request", 400, NoBody)
    /\ UNCHANGED <<preferred_location, job_type, n_local_jobs, n_external_jobs, m_i,
                   m_job, m_decision, local_matches, candidate_external,
                   external_matches, threshold_env, fetch, resume_emb, m_calls>>

\* lines 599-745: the payload is read, the resume resolved, the two job lists built
ApiMatchBegin ==
    /\ UNCHANGED <<r_vars, c_vars, f_vars, s_vars, g_vars, q_vars, t_vars>>
    /\ m_pc = "idle" /\ r_pc = "idle"
    /\ \E req \in Requests : MatchResume(req) \in {"payload", "stored"}
    /\ m_request' = Resolved
    \* pl, jt: raw payload values of preferred_location and job_type.
    \* f: how the external fetch of lines 622-733 ends: SERPAPI_KEY is not set;
    \* the list is built; requests.get raises a connection error or a timeout;
    \* raise_for_status raises; the payload cannot be read (r.json() raises, or
    \* the data or one of its items has not the shape lines 683-716 expect).
    \* b: what the backends do while the resume is embedded.  The model embeds
    \* the resume with Vertex or with nothing; a resume embedded by OpenAI next
    \* to a job embedded by Vertex is the mirror image of a case the model has.
    /\ \E pl \in { <<>>, <<"N","Y">> },
          jt \in { <<>>, <<"A","n","y">>, <<"Q","A">> },
          nl \in 0..MaxLocal,
          f \in { "no_key", "ok", "network", "timeout", "http", "payload" },
          built \in 0..MaxExternal,
          b \in { b \in Backends : b.use_vertex /\ (b.vertex_ok \/ ~b.openai_ok) } :
          LET ne == ExternalJobsKept(f, built) IN
          \* items are normalised only when the request succeeded
          /\ f \in { "ok", "payload" } \/ built = 0
          /\ preferred_location' = Lower(pl)
          /\ job_type' = Lower(jt)
          /\ n_local_jobs' = nl
          /\ fetch' = f
          /\ n_external_jobs' = ne
          /\ IF nl = 0 /\ ne = 0
             THEN /\ m_pc' = "done"
                  /\ m_resp' = Response("no_jobs", 200, NoBody)
                  /\ resume_emb' = resume_emb
                  /\ m_calls' = {"catalog"}
                         \cup (IF f = "no_key" THEN {} ELSE {"llm", "provider"})
             ELSE /\ m_pc' = IF nl > 0 THEN "local" ELSE AfterLocal(ne)
                  /\ m_resp' = m_resp
                  /\ resume_emb' = GetEmbedding(<<"resume">>, b)
                  /\ m_calls' = {"catalog", "embedder"}
                         \cup (IF f = "no_key" THEN {} ELSE {"llm", "provider"})
    /\ UNCHANGED <<m_i, m_job, m_decision, local_matches, candidate_external,
                   external_matches, threshold_env>>

\* lines 751-807: one iteration of the loop over local_jobs
LocalIter ==
    /\ UNCHANGED <<r_vars, c_vars, f_vars, s_vars, g_vars, q_vars, t_vars>>
    /\ m_pc = "local"
    /\ m_i < n_local_jobs
    \* the cosines the model draws from for two non-zero vectors of one length
    /\ \E j \in LocalPool, b \in Backends,
          c \in { Cos(25000), Cos(29996), Cos(35000), Cos(60000) } :
          LET job_emb == GetEmbedding(FullJobDesc(j), b)
              o == CosineSimilarities(resume_emb, job_emb, c)
              d == LocalDecision(j, o, preferred_location, job_type)
          IN
          /\ m_job' = j
          /\ m_decision' = d
          /\ local_matches' =
                IF d = "kept"
                THEN Append(local_matches, Match("local", m_i + 1, RoundPct(o.cos)))
                ELSE local_matches
    /\ m_i' = IF m_i + 1 < n_local_jobs THEN m_i + 1 ELSE 0
    /\ m_pc' = IF m_i + 1 < n_local_jobs THEN "local" ELSE AfterLocal(n_external_jobs)
    /\ UNCHANGED <<preferred_location, job_type, n_local_jobs, n_external_jobs,
                   candidate_external, external_matches, threshold_env, m_resp,
                   fetch, resume_emb, m_calls, m_request>>

\* lines 817-824: one iteration of the filter loop over external_jobs
ExternalFilterIter ==
    /\ UNCHANGED <<r_vars, c_vars, f_vars, s_vars, g_vars, q_vars, t_vars>>
    /\ m_pc = "ext_filter"
    /\ m_i < n_external_jobs
    /\ \E j \in ExternalPool :
          LET d == ExternalDecision(j, preferred_location, job_type)
              cand == IF d = "candidate"
                      THEN Append(candidate_external, [id |-> m_i + 1, job |-> j])
                      ELSE candidate_external
          IN
          /\ m_job' = j
          /\ m_decision' = d
          /\ candidate_external' = cand
          /\ m_pc' = IF m_i + 1 < n_external_jobs THEN "ext_filter"
                     ELSE IF Len(cand) > 0 THEN "ext_score" ELSE "finish"
    /\ m_i' = IF m_i + 1 < n_external_jobs THEN m_i + 1 ELSE 0
    /\ UNCHANGED <<preferred_location, job_type, n_local_jobs, n_external_jobs,
                   local_matches, external_matches, threshold_env, m_resp,
                   fetch, resume_emb, m_calls, m_request>>

\* lines 827-842: one iteration of the scoring loop over candidate_external;
\* an exception here is caught only at line 930
ExternalScoreIter ==
    /\ UNCHANGED <<r_vars, c_vars, f_vars, s_vars, g_vars, q_vars, t_vars>>
    /\ m_pc = "ext_score"
    /\ m_i < Len(candidate_external)
    \* the cosines the model draws from for two non-zero vectors of one length
    /\ \E b \in Backends, c \in { Cos(25000), Cos(45000), Cos(60000) } :
          LET job_emb == GetEmbedding(candidate_external[m_i + 1].job.description, b)
              o == CosineSimilarities(resume_emb, job_emb, c)
          IN
          IF o.ok
          THEN /\ external_matches' =
                     Append(external_matches,
                            Match("external", candidate_external[m_i + 1].id,
                                  RoundPct(o.cos)))
               /\ m_i' = IF m_i + 1 < Len(candidate_external) THEN m_i + 1 ELSE 0
               /\ m_pc' = IF m_i + 1 < Len(candidate_external)
                          THEN "ext_score" ELSE "finish"
               /\ m_resp' = m_resp
               /\ m_decision' = "scored"
          ELSE /\ external_matches' = external_matches
               /\ m_i' = m_i
               /\ m_pc' = "done"
               /\ m_resp' = Response("error", 500, NoBody)
               /\ m_decision' = "error"
    /\ m_job' = candidate_external[m_i + 1].job
    /\ UNCHANGED <<preferred_location, job_type, n_local_jobs, n_external_jobs,
                   local_matches, candidate_external, threshold_env,
                   fetch, resume_emb, m_calls, m_request>>

\* lines 846-929: sort, threshold, backfill, message, response
ApiMatchFinish ==
    /\ UNCHANGED <<r_vars, c_vars, f_vars, s_vars, g_vars, q_vars, t_vars>>
    /\ m_pc = "finish"
    \* MATCH_THRESHOLD values the model draws from: 0.10, 0.55, 10 and the default 50
    /\ \E env \in { 10, 55, 1000, 5000 } :
          LET lm == SortDesc(local_matches)
              em == SortDesc(external_matches)
              threshold_pct == EffectiveThreshold(env)
              filtered == Filtered(lm, em, threshold_pct)
          IN
          /\ threshold_env' = env
          /\ local_matches' = lm
          /\ external_matches' = em
          /\ m_resp' = Response("matches", 200,
                [matches |-> filtered,
                 local_matches |-> OfSource(filtered, "local"),
                 external_matches |-> OfSource(filtered, "external"),
                 threshold_pct |-> threshold_pct,
                 message |-> Message(lm \o em, filtered,
                                     n_local_jobs, n_external_jobs)])
    /\ m_pc' = "done"
    /\ m_job' = NoJob
    /\ m_decision' = "none"
    /\ UNCHANGED <<preferred_location, job_type, n_local_jobs, n_external_jobs, m_i,
                   candidate_external, fetch, resume_emb, m_calls, m_request>>

MatchNext ==
    \/ ApiMatchMissingResume
    \/ ApiMatchBegin
    \/ LocalIter
    \/ ExternalFilterIter
    \/ ExternalScoreIter
    \/ ApiMatchFinish

-----------------------------------------------------------------------------
(* api_rag_search: retrieval (lines 1128-1174) *)

\* the relaxed floor of line 1149, 0.2
RelaxedFloor == 20000

RECURSIVE SeqsUpTo(_, _)
SeqsUpTo(S, n) ==
    IF n = 0 THEN { <<>> }
    ELSE LET shorter == SeqsUpTo(S, n - 1)
         IN  shorter \cup { Append(q, x) : q \in shorter, x \in S }

\* [i for i, sim in enumerate(sims) if sim >= floor], as (index, similarity) pairs
ValidSims(ss, floor) ==
    LET all == [i \in 1..Len(ss) |-> [idx |-> i, similarity |-> ss[i]]]
        Clears(p) == p.similarity >= floor
    IN  SelectSeq(all, Clears)

\* whether line 1146 finds no valid index
MustRelax(ss, floor) == Len(ValidSims(ss, floor)) = 0

\* a floor that is never relaxed
FloorNeverRelaxed(ss, floor) == floor

\* min_similarity after lines 1145-1150
FloorInEffect(ss, floor) == IF MustRelax(ss, floor) THEN RelaxedFloor ELSE floor

\* a slice that keeps the whole list
SliceAll(s, k) == s

\* s[:k] of Python, for any integer k
SliceTo(s, k) ==
    IF k >= 0
    THEN SubSeq(s, 1, IF k < Len(s) THEN k ELSE Len(s))
    ELSE SubSeq(s, 1, IF Len(s) + k > 0 THEN Len(s) + k ELSE 0)

\* valid_sims[:top_k] after the sort of line 1154
TopSims(ss, floor, k) ==
    SliceTo(SortDesc(ValidSims(ss, FloorInEffect(ss, floor))), k)

\* raw_results of lines 1165-1174
RawResults(ss, floor, k) ==
    LET top == TopSims(ss, floor, k)
    IN  [n \in 1..Len(top) |->
            [idx |-> top[n].idx, score |-> top[n].similarity,
             match_pct |-> RoundPct(top[n].similarity)]]

-----------------------------------------------------------------------------
(* api_rag_search: rerank (lines 1176-1220) *)

\* The responses of chat_complete the model draws from.  "t" is a run of text
\* holding no brace; "S90" and "S20" are the members "score": 90 and
\* "score": 20, "Sx" is "score": "high", "Sn" is "score": null, "E" is
\* "explanation": "why".
LlmTexts ==
    { <<"t">>,
      <<"t", "{">>,
      <<"{", "S90", ",", "E", "}">>,
      <<"t", "{", "S20", "}", "t">>,
      <<"{", "E", "}">>,
      <<"t", "{", "t", "}">>,
      <<"{", "Sx", ",", "E", "}">>,
      <<"}", "t", "{">> }

Said(text) == [raised |-> FALSE, text |-> text]

ChatRaised == [raised |-> TRUE, text |-> <<>>]

Has(s, c) == \E k \in 1..Len(s) : s[k] = c

\* llm_out[start:end] of lines 1207-1209, for a text that holds both braces:
\* start is llm_out.find("{") and last llm_out.rfind("}"), 1-based
JsonStr(out) ==
    LET start == CHOOSE k \in 1..Len(out) :
                     out[k] = "{" /\ \A n \in 1..(k - 1) : out[n] # "{"
        last == CHOOSE k \in 1..Len(out) :
                    out[k] = "}" /\ \A n \in (k + 1)..Len(out) : out[n] # "}"
    IN  IF last < start THEN <<>> ELSE SubSeq(out, start, last)

\* json.loads succeeds on js: an object of comma-separated members
IsJsonObject(js) ==
    /\ Len(js) >= 2
    /\ js[1] = "{"
    /\ js[Len(js)] = "}"
    /\ LET inner == SubSeq(js, 2, Len(js) - 1)
       IN  \/ Len(inner) = 0
           \/ /\ Len(inner) % 2 = 1
              /\ \A k \in 1..Len(inner) :
                    IF k % 2 = 1 THEN inner[k] \in { "S90", "S20", "Sx", "Sn", "E" }
                    ELSE inner[k] = ","

\* parsed.get("score"): the last "score" member, or "absent"
ScoreMember(js) ==
    LET at == { k \in 1..Len(js) : js[k] \in { "S90", "S20", "Sx", "Sn" } }
    IN  IF at = {} THEN "absent"
        ELSE js[CHOOSE k \in at : \A n \in at : n <= k]

\* int(v) succeeds on the value of the member
IsNumeric(member) == member \in { "S90", "S20" }

IntOf(member) == IF member = "S90" THEN 90 ELSE 20

\* parsed.get("explanation", "")
ExplanationMember(js) == IF Has(js, "E") THEN <<"why">> ELSE <<>>

Unavailable == <<"Analysis unavailable: ", "error">>

Entry(r, has, score, explanation) ==
    [idx |-> r.idx, similarity |-> r.score, match_score |-> r.match_pct,
     has_llm_score |-> has, llm_score |-> score, match_explanation |-> explanation]

\* result_entry after lines 1202-1218, for raw result r and chat outcome o
Reranked(r, o) ==
    IF o.raised THEN Entry(r, FALSE, 0, Unavailable)
    ELSE IF Has(o.text, "{") /\ Has(o.text, "}")
    THEN LET js == JsonStr(o.text)
             sc == ScoreMember(js)
         IN  IF ~IsJsonObject(js) THEN Entry(r, FALSE, 0, Unavailable)
             ELSE IF sc \in { "absent", "Sn" }
                  THEN Entry(r, FALSE, 0, ExplanationMember(js))
             ELSE IF ~IsNumeric(sc) THEN Entry(r, FALSE, 0, Unavailable)
             ELSE Entry(r, TRUE, IntOf(sc), ExplanationMember(js))
    ELSE Entry(r, FALSE, 0, o.text)

\* a loop that drops the candidate whose rerank failed
AppendedUnlessFailed(rs, entry) ==
    IF entry.match_explanation = Unavailable THEN rs ELSE Append(rs, entry)

\* results after line 1220
Appended(rs, entry) == Append(rs, entry)

-----------------------------------------------------------------------------
(* api_rag_search: final order and response (lines 1222-1250) *)

\* a final step that keeps the order of the rerank loop
OrderKept(rs, rr) == rs

\* results after lines 1223-1226; the sort keys of lines 1224 and 1226 are in
\* hundredths of a percent
FinalOrder(rs, rr) ==
    LET any_llm_score == \E k \in 1..Len(rs) : rs[k].has_llm_score
        key(e) == IF rr /\ any_llm_score
                  THEN IF e.has_llm_score THEN e.llm_score * 100 ELSE e.match_score
                  ELSE e.match_score
        keyed == [k \in 1..Len(rs) |-> [similarity |-> key(rs[k]), e |-> rs[k]]]
        sorted == SortDesc(keyed)
    IN  [k \in 1..Len(sorted) |-> sorted[k].e]

\* formatted_results of lines 1229-1241
Formatted(rs) ==
    [k \in 1..Len(rs) |->
        [idx |-> rs[k].idx, similarity |-> rs[k].similarity,
         match_explanation |-> rs[k].match_explanation]]

RagResponse(kind, status, rs) == [kind |-> kind, status |-> status, results |-> rs]

RagInit ==
    /\ r_pc = "idle"
    /\ top_k = 0
    /\ rerank = FALSE
    /\ rag_floor_env = 0
    /\ sims = <<>>
    /\ min_similarity = 0
    /\ relaxations = 0
    /\ raw_results = <<>>
    /\ r_i = 0
    /\ llm_outs = <<>>
    /\ results = <<>>
    /\ r_resp = RagResponse("none", 0, <<>>)
    /\ r_calls = {}
    /\ r_request = Resolved

\* lines 946-962: no resume can be resolved; the exception of line 948 is
\* caught at line 1253
ApiRagMissingResume ==
    /\ UNCHANGED <<m_vars, c_vars, f_vars, s_vars, g_vars, q_vars, t_vars>>
    /\ r_pc = "idle" /\ m_pc = "idle"
    /\ \E req \in Requests :
          /\ RagResume(req) \in {"missing", "raised"}
          /\ r_request' = req
          /\ r_resp' = IF RagResume(req) = "raised"
                       THEN RagResponse("error", 500, <<>>)
                       ELSE RagResponse("bad_request", 400, <<>>)
    /\ r_pc' = "done"
    /\ UNCHANGED <<top_k, rerank, rag_floor_env, sims, min_similarity, relaxations,
                   raw_results, r_i, llm_outs, results, r_calls>>

\* lines 946-1174: payload, job pool, similarities, floor, top-k
ApiRagBegin ==
    /\ UNCHANGED <<m_vars, c_vars, f_vars, s_vars, g_vars, q_vars, t_vars>>
    /\ r_pc = "idle" /\ m_pc = "idle"
    /\ \E req \in Requests : RagResume(req) \in {"payload", "stored"}
    /\ r_request' = Resolved
    \* floor: RAG_MIN_SIMILARITY values the model draws from, the default 0.3
    \* and 0.5; ss: the pooled similarities, drawn from five cosine values
    /\ \E k \in (0 - 1)..MaxTopK, rr \in BOOLEAN, floor \in { 30000, 50000 },
          ss \in SeqsUpTo({ 15000, 20000, 29996, 30000, 45000 }, MaxPool) :
          /\ top_k' = k
          /\ rerank' = rr
          /\ rag_floor_env' = floor
          /\ sims' = ss
          /\ r_calls' = {"catalog"} \cup (IF Len(ss) = 0 THEN {} ELSE {"embedder"})
          /\ IF Len(ss) = 0
             THEN /\ r_pc' = "done"
                  /\ r_resp' = RagResponse("no_jobs", 200, <<>>)
                  /\ UNCHANGED <<min_similarity, relaxations, raw_results>>
             ELSE /\ min_similarity' = FloorInEffect(ss, floor)
                  /\ relaxations' = IF MustRelax(ss, floor) THEN relaxations + 1
                                    ELSE relaxations
                  /\ raw_results' = RawResults(ss, floor, k)
                  /\ r_pc' = IF Len(RawResults(ss, floor, k)) > 0 THEN "rerank" ELSE "sort"
                  /\ r_resp' = r_resp
    /\ UNCHANGED <<r_i, llm_outs, results>>

\* lines 1178-1220: one iteration of the loop over raw_results
RerankIter ==
    /\ UNCHANGED <<m_vars, c_vars, f_vars, s_vars, g_vars, q_vars, t_vars>>
    /\ r_pc = "rerank"
    /\ r_i < Len(raw_results)
    /\ LET r == raw_results[r_i + 1] IN
       IF rerank
       THEN \E o \in { Said(t) : t \in LlmTexts } \cup { ChatRaised } :
               /\ results' = Appended(results, Reranked(r, o))
               /\ llm_outs' = Append(llm_outs, o)
       ELSE /\ results' = Appended(results, Entry(r, FALSE, 0, <<>>))
            /\ llm_outs' = llm_outs
    /\ r_i' = r_i + 1
    /\ r_calls' = IF rerank THEN r_calls \cup {"llm"} ELSE r_calls
    /\ r_pc' = IF r_i + 1 < Len(raw_results) THEN "rerank" ELSE "sort"
    /\ UNCHANGED <<top_k, rerank, rag_floor_env, sims, min_similarity, relaxations,
                   raw_results, r_resp, r_request>>

\* lines 1222-1250: final order, formatting, response
ApiRagFinish ==
    /\ UNCHANGED <<m_vars, c_vars, f_vars, s_vars, g_vars, q_vars, t_vars>>
    /\ r_pc = "sort"
    /\ results' = FinalOrder(results, rerank)
    /\ r_resp' = RagResponse("results", 200, Formatted(FinalOrder(results, rerank)))
    /\ r_pc' = "done"
    /\ UNCHANGED <<top_k, rerank, rag_floor_env, sims, min_similarity, relaxations,
                   raw_results, r_i, llm_outs, r_calls, r_request>>

RagNext ==
    \/ ApiRagMissingResume
    \/ ApiRagBegin
    \/ RerankIter
    \/ ApiRagFinish

-----------------------------------------------------------------------------
(* chat_complete (src/classifier.py 109-149) *)

\* lines 130-131: keywords is re.findall(r'\b[A-Z][a-zA-Z]+\b', prompt), the
\* runs of word characters that are a capital followed by letters; the default
\* is "general job search"
KeywordFallback(prompt) ==
    LET Cap(w) == Len(w) >= 2 /\ IsUpper(w[1]) /\ IsAlpha(w)
        \* keywords[:n] when keywords are looked for from place i on
        RECURSIVE First(_, _)
        First(i, n) ==
            LET a == RunEnd(prompt, i, "not_word")
                b == RunEnd(prompt, a, "word")
                w == SubSeq(prompt, a, b - 1)
            IN  IF n = 0 \/ a > Len(prompt) THEN <<>>
                ELSE IF Cap(w) THEN <<w>> \o First(b, n - 1)
                ELSE First(b, n)
        joined == Join(<<" ">>, First(1, 10))
    IN  IF Len(joined) > 0 THEN joined
        ELSE << "g", "e", "n", "e", "r", "a", "l", " ", "j", "o", "b", " ",
             "s", "e", "a", "r", "c", "h" >>

\* What a backend does with one request: it answers with a text (an empty one
\* when the response has no text), or the request raises
Reply(text) == [raises |-> FALSE, text |-> text]

ReplyRaises == [raises |-> TRUE, text |-> <<>>]

\* chat_complete(prompt) when USE_VERTEX is use_vertex, Vertex does vertex,
\* openai_client is set or not, and OpenAI does openai
ChatComplete(prompt, use_vertex, vertex, openai_client, openai) ==
    IF use_vertex /\ ~vertex.raises /\ Len(vertex.text) > 0 THEN Strip(vertex.text)
    ELSE IF use_vertex /\ vertex.raises THEN KeywordFallback(prompt)
    ELSE IF openai_client /\ ~openai.raises THEN Strip(openai.text)
    ELSE \* "Sorry, AI response could not be generated at the moment." (line 149)
         << "S", "o", "r", "r", "y", ",", " ", "A", "I", " ", "r", "e", "s",
         "p", "o", "n", "s", "e", " ", "c", "o", "u", "l", "d", " ", "n", "o",
         "t", " ", "b", "e", " ", "g", "e", "n", "e", "r", "a", "t", "e", "d",
         " ", "a", "t", " ", "t", "h", "e", " ", "m", "o", "m", "e", "n", "t",
         "." >>

\* the return statement of chat_complete that is reached: the Vertex text of
\* line 124, the keywords of line 131, the OpenAI text of line 144, or the
\* apology of line 149
Branch(use_vertex, vertex, openai_client, openai) ==
    IF use_vertex /\ ~vertex.raises /\ Len(vertex.text) > 0 THEN "vertex"
    ELSE IF use_vertex /\ vertex.raises THEN "keywords"
    ELSE IF openai_client /\ ~openai.raises THEN "openai"
    ELSE "apology"

-----------------------------------------------------------------------------
(* The external fetch of api_match (src/app.py 622-733) *)

\* resume_text[:1500] of line 630
PreviewChars == 1500

\* line 650
QueryWords == 5

\* line 651
QueryChars == 50

\* line 652
MinQueryChars == 3

\* resume_text[:300] of line 664
HeuristicChars == 300

\* query_prompt of lines 631-639
QueryPrompt(resume_text) ==
    << "Y", "o", "u", " ", "a", "r", "e", " ", "a", " ", "j", "o", "b", " ",
    "s", "e", "a", "r", "c", "h", " ", "a", "s", "s", "i", "s", "t", "a", "n",
    "t", ".", " ", "A", "n", "a", "l", "y", "z", "e", " ", "t", "h", "i", "s",
    " ", "r", "e", "s", "u", "m", "e", " ", "a", "n", "d", " ", "e", "x", "t",
    "r", "a", "c", "t", " ", "a", " ", "S", "P", "E", "C", "I", "F", "I", "C",
    " ", "j", "o", "b", " ", "s", "e", "a", "r", "c", "h", " ", "q", "u", "e",
    "r", "y", ".", "\n", "\n", "R", "e", "s", "u", "m", "e", ":", "\n" >>
    \o Take(resume_text, PreviewChars) \o
    << "\n", "\n", "B", "a", "s", "e", "d", " ", "o", "n", " ", "t", "h", "i",
    "s", " ", "r", "e", "s", "u", "m", "e", ",", " ", "c", "r", "e", "a", "t",
    "e", " ", "a", " ", "j", "o", "b", " ", "s", "e", "a", "r", "c", "h", " ",
    "q", "u", "e", "r", "y", " ", "(", "3", "-", "5", " ", "w", "o", "r", "d",
    "s", ")", " ", "t", "h", "a", "t", " ", "w", "o", "u", "l", "d", " ", "f",
    "i", "n", "d", " ", "t", "h", "e", " ", "m", "o", "s", "t", " ", "r", "e",
    "l", "e", "v", "a", "n", "t", " ", "j", "o", "b", "s", ".", "\n", ".",
    ".", ".", "\n", "R", "e", "t", "u", "r", "n", " ", "O", "N", "L", "Y",
    " ", "t", "h", "e", " ", "s", "e", "a", "r", "c", "h", " ", "q", "u", "e",
    "r", "y", " ", "(", "3", "-", "5", " ", "w", "o", "r", "d", "s", ")", ",",
    " ", "n", "o", "t", "h", "i", "n", "g", " ", "e", "l", "s", "e", ".", " ",
    "N", "o", " ", "e", "x", "p", "l", "a", "n", "a", "t", "i", "o", "n", ",",
    " ", "n", "o", " ", "q", "u", "o", "t", "e", "s", ",", " ", "j", "u", "s",
    "t", " ", "t", "h", "e", " ", "q", "u", "e", "r", "y", ".", "\n" >>

SoftwareEngineer == << "s", "o", "f", "t", "w", "a", "r", "e", " ", "e", "n",
                       "g", "i", "n", "e", "e", "r" >>

\* common_titles of line 658
CommonTitles ==
    << << "e", "n", "g", "i", "n", "e", "e", "r" >>,
       << "d", "e", "v", "e", "l", "o", "p", "e", "r" >>,
       << "a", "n", "a", "l", "y", "s", "t" >>,
       << "s", "c", "i", "e", "n", "t", "i", "s", "t" >>,
       << "m", "a", "n", "a", "g", "e", "r" >>,
       << "d", "e", "s", "i", "g", "n", "e", "r" >>,
       << "a", "r", "c", "h", "i", "t", "e", "c", "t" >>,
       << "p", "r", "o", "g", "r", "a", "m", "m", "e", "r" >> >>

\* lines 643-651: the clean-up of what chat_complete returned
CleanedQuery(text) ==
    LET q1 == Strip(Remove(Remove(Strip(text), "\""), "'"))
        q2 == IF StartsWith(Lower(q1), << "q", "u", "e", "r", "y", ":" >>)
              THEN Strip(SubSeq(q1, 7, Len(q1)))
              ELSE q1
        lines == LinesFrom(q2, 1)
        \* the three backquotes of line 646; a backquote is written "BQ"
        q3 == IF StartsWith(q2, << "BQ", "BQ", "BQ" >>)
              THEN Strip(Join(<<"\n">>, SubSeq(lines, 2, Len(lines) - 1)))
              ELSE q2
    IN  Take(Join(<<" ">>, Take(Split(q3), QueryWords)), QueryChars)

\* lines 657-670: the keyword heuristic over the resume
HeuristicQuery(resume_text) ==
    LET resume_lower == Lower(resume_text)
        found == { k \in 1..Len(CommonTitles) : Contains(resume_lower, CommonTitles[k]) }
        first == CHOOSE k \in found : \A n \in found : k <= n
        Skill(w) == Len(w) > 3 /\ IsAlpha(w)
        skills == Take(SelectSeq(Split(Take(resume_text, HeuristicChars)), Skill), 3)
        query_parts == (IF found # {} THEN <<Title(CommonTitles[first])>> ELSE <<>>)
                         \o Take(skills, 2)
    IN  IF Len(query_parts) > 0 THEN Join(<<" ">>, query_parts) ELSE SoftwareEngineer

\* query after lines 640-670, o being what the call of chat_complete did
DerivedQuery(o, resume_text) ==
    IF o.raised THEN HeuristicQuery(resume_text)
    ELSE IF Len(CleanedQuery(o.text)) < MinQueryChars THEN SoftwareEngineer
    ELSE CleanedQuery(o.text)

\* resume_text[:2000] of line 982
RagPreviewChars == 2000

\* query_prompt of api_rag_search, lines 984-1005
RagQueryPrompt(resume_text) ==
    << "Y", "o", "u", " ", "a", "r", "e", " ", "a", " ", "j", "o", "b", " ",
       "s", "e", "a", "r", "c", "h", " ", "a", "s", "s", "i", "s", "t", "a",
       "n", "t", ".", " ", "A", "n", "a", "l", "y", "z", "e", " ", "t", "h",
       "i", "s", " ", "r", "e", "s", "u", "m", "e", " ", "a", "n", "d", " ",
       "e", "x", "t", "r", "a", "c", "t", " ", "a", " ", "S", "P", "E", "C",
       "I", "F", "I", "C", " ", "j", "o", "b", " ", "s", "e", "a", "r", "c",
       "h", " ", "q", "u", "e", "r", "y", ".", "\n", "\n", "R", "e", "s", "u",
       "m", "e", ":", "\n" >>
    \o Take(resume_text, RagPreviewChars) \o
    << "\n", "\n", "B", "a", "s", "e", "d", " ", "o", "n", " ", "t", "h", "i",
       "s", " ", "r", "e", "s", "u", "m", "e", ",", " ", "c", "r", "e", "a",
       "t", "e", " ", "a", " ", "j", "o", "b", " ", "s", "e", "a", "r", "c",
       "h", " ", "q", "u", "e", "r", "y", " ", "(", "3", "-", "5", " ", "w",
       "o", "r", "d", "s", ")", " ", "t", "h", "a", "t", " ", "w", "o", "u",
       "l", "d", " ", "f", "i", "n", "d", " ", "t", "h", "e", " ", "m", "o",
       "s", "t", " ", "r", "e", "l", "e", "v", "a", "n", "t", " ", "j", "o",
       "b", "s", ".", "\n", "F", "o", "c", "u", "s", " ", "o", "n", ":", "\n",
       "1", ".", " ", "J", "o", "b", " ", "t", "i", "t", "l", "e", "/", "r",
       "o", "l", "e", " ", "m", "e", "n", "t", "i", "o", "n", "e", "d", " ",
       "o", "r", " ", "i", "m", "p", "l", "i", "e", "d", "\n", "2", ".", " ",
       "P", "r", "i", "m", "a", "r", "y", " ", "t", "e", "c", "h", "n", "o",
       "l", "o", "g", "y", "/", "s", "k", "i", "l", "l", "/", "d", "o", "m",
       "a", "i", "n", "\n", "3", ".", " ", "E", "x", "p", "e", "r", "i", "e",
       "n", "c", "e", " ", "l", "e", "v", "e", "l", " ", "i", "f", " ", "a",
       "p", "p", "a", "r", "e", "n", "t", "\n", "\n", "E", "x", "a", "m", "p",
       "l", "e", "s", ":", "\n", "-", " ", "\"", "S", "o", "f", "t", "w", "a",
       "r", "e", " ", "E", "n", "g", "i", "n", "e", "e", "r", " ", "P", "y",
       "t", "h", "o", "n", "\"", " ", "f", "o", "r", " ", "P", "y", "t", "h",
       "o", "n", " ", "d", "e", "v", "e", "l", "o", "p", "e", "r", "s", "\n",
       "-", " ", "\"", "D", "a", "t", "a", " ", "S", "c", "i", "e", "n", "t",
       "i", "s", "t", " ", "M", "a", "c", "h", "i", "n", "e", " ", "L", "e",
       "a", "r", "n", "i", "n", "g", "\"", " ", "f", "o", "r", " ", "M", "L",
       " ", "d", "a", "t", "a", " ", "s", "c", "i", "e", "n", "t", "i", "s",
       "t", "s", "\n", "-", " ", "\"", "P", "r", "o", "d", "u", "c", "t", " ",
       "M", "a", "n", "a", "g", "e", "r", " ", "S", "a", "a", "S", "\"", " ",
       "f", "o", "r", " ", "p", "r", "o", "d", "u", "c", "t", " ", "m", "a",
       "n", "a", "g", "e", "r", "s", " ", "i", "n", " ", "S", "a", "a", "S",
       "\n", "-", " ", "\"", "M", "a", "r", "k", "e", "t", "i", "n", "g", " ",
       "M", "a", "n", "a", "g", "e", "r", " ", "D", "i", "g", "i", "t", "a",
       "l", "\"", " ", "f", "o", "r", " ", "d", "i", "g", "i", "t", "a", "l",
       " ", "m", "a", "r", "k", "e", "t", "i", "n", "g", " ", "m", "a", "n",
       "a", "g", "e", "r", "s", "\n", "\n", "I", "M", "P", "O", "R", "T", "A",
       "N", "T", ":", " ", "M", "a", "k", "e", " ", "i", "t", " ", "S", "P",
       "E", "C", "I", "F", "I", "C", " ", "t", "o", " ", "t", "h", "i", "s",
       " ", "r", "e", "s", "u", "m", "e", ".", " ", "I", "f", " ", "r", "e",
       "s", "u", "m", "e", " ", "m", "e", "n", "t", "i", "o", "n", "s", " ",
       "\"", "R", "e", "a", "c", "t", " ", "d", "e", "v", "e", "l", "o", "p",
       "e", "r", "\"", ",", " ", "u", "s", "e", " ", "\"", "R", "e", "a", "c",
       "t", " ", "D", "e", "v", "e", "l", "o", "p", "e", "r", "\"", " ", "n",
       "o", "t", " ", "g", "e", "n", "e", "r", "i", "c", " ", "\"", "s", "o",
       "f", "t", "w", "a", "r", "e", " ", "e", "n", "g", "i", "n", "e", "e",
       "r", "\"", ".", "\n", "I", "f", " ", "r", "e", "s", "u", "m", "e", " ",
       "m", "e", "n", "t", "i", "o", "n", "s", " ", "\"", "D", "a", "t", "a",
       " ", "A", "n", "a", "l", "y", "s", "t", " ", "S", "Q", "L", "\"", ",",
       " ", "u", "s", "e", " ", "\"", "D", "a", "t", "a", " ", "A", "n", "a",
       "l", "y", "s", "t", " ", "S", "Q", "L", "\"", " ", "n", "o", "t", " ",
       "j", "u", "s", "t", " ", "\"", "D", "a", "t", "a", " ", "A", "n", "a",
       "l", "y", "s", "t", "\"", ".", "\n", "\n", "R", "e", "t", "u", "r",
       "n", " ", "O", "N", "L", "Y", " ", "t", "h", "e", " ", "s", "e", "a",
       "r", "c", "h", " ", "q", "u", "e", "r", "y", " ", "(", "3", "-", "5",
       " ", "w", "o", "r", "d", "s", ")", ",", " ", "n", "o", "t", "h", "i",
       "n", "g", " ", "e", "l", "s", "e", ".", " ", "N", "o", " ", "e", "x",
       "p", "l", "a", "n", "a", "t", "i", "o", "n", ",", " ", "n", "o", " ",
       "q", "u", "o", "t", "e", "s", ",", " ", "j", "u", "s", "t", " ", "t",
       "h", "e", " ", "q", "u", "e", "r", "y", ".", "\n" >>

\* query of api_rag_search after lines 1006-1057, o being what the call of
\* chat_complete did
RagDerivedQuery(o, resume_text) ==
    LET resume_lower == Lower(resume_text)
        In(w) == Contains(resume_lower, w)
        \* lines 1011-1013: one prefix of the list is cut off
        Cut(q, prefix) ==
            IF StartsWith(Lower(q), prefix)
            THEN Strip(SubSeq(q, Len(prefix) + 1, Len(q)))
            ELSE q
        q0 == Strip(Remove(Remove(Strip(o.text), "\""), "'"))
        q1 == Cut(q0, << "q", "u", "e", "r", "y", ":" >>)
        q2 == Cut(q1, << "s", "e", "a", "r", "c", "h", ":" >>)
        q3 == Cut(q2, << "j", "o", "b", "s", ":" >>)
        q4 == Cut(q3, << "t", "h", "e", " ", "q", "u", "e", "r", "y", " ", "i",
                         "s", ":" >>)
        q5 == Cut(q4, << "q", "u", "e", "r", "y", " ", "i", "s", ":" >>)
        Meaningful(w) == Len(w) > 2
        cleaned == Take(Join(<<" ">>, Take(SelectSeq(Split(q5), Meaningful),
                                           QueryWords)), QueryChars)
        \* common_titles and common_skills of lines 1022-1023
        titles == CommonTitles
                    \o << << "c", "o", "n", "s", "u", "l", "t", "a", "n", "t" >>,
                          << "s", "p", "e", "c", "i", "a", "l", "i", "s", "t" >> >>
        skills == << << "p", "y", "t", "h", "o", "n" >>,
                     << "j", "a", "v", "a" >>,
                     << "r", "e", "a", "c", "t" >>,
                     << "j", "a", "v", "a", "s", "c", "r", "i", "p", "t" >>,
                     << "s", "q", "l" >>,
                     << "d", "a", "t", "a" >>,
                     << "m", "a", "c", "h", "i", "n", "e", " ", "l", "e", "a",
                        "r", "n", "i", "n", "g" >>,
                     << "a", "i" >>,
                     << "c", "l", "o", "u", "d" >>,
                     << "a", "w", "s" >> >>
        \* "programmer", the eighth of CommonTitles, is not in the list
        found_titles == { k \in 1..7 \cup {9, 10} : In(titles[k]) }
        found_skills == { k \in 1..Len(skills) : In(skills[k]) }
        found_title == titles[CHOOSE k \in found_titles : \A n \in found_titles : k <= n]
        found_skill == skills[CHOOSE k \in found_skills : \A n \in found_skills : k <= n]
        TitleAll(t) == LET ws == Split(t)
                       IN  Join(<<" ">>, [k \in 1..Len(ws) |-> Title(ws[k])])
    IN  IF o.raised
        THEN \* lines 1049-1057
             IF In(<< "d", "a", "t", "a" >>)
                  /\ In(<< "s", "c", "i", "e", "n", "t", "i", "s", "t" >>)
             THEN << "D", "a", "t", "a", " ", "S", "c", "i", "e", "n", "t", "i",
                     "s", "t" >>
             ELSE IF In(<< "e", "n", "g", "i", "n", "e", "e", "r" >>)
                       \/ In(<< "d", "e", "v", "e", "l", "o", "p", "e", "r" >>)
             THEN << "S", "o", "f", "t", "w", "a", "r", "e", " ", "E", "n", "g",
                     "i", "n", "e", "e", "r" >>
             ELSE SoftwareEngineer
        ELSE IF Len(cleaned) >= MinQueryChars THEN cleaned
        ELSE IF found_titles # {} /\ found_skills # {}
             THEN TitleAll(found_title) \o <<" ">> \o TitleAll(found_skill)
        ELSE IF found_titles # {} THEN TitleAll(found_title)
        ELSE SoftwareEngineer

\* The resumes the model draws from
FetchResumes ==
    { << "S", "e", "n", "i", "o", "r", " ", "d", "a", "t", "a", " ", "e",
         "n", "g", "i", "n", "e", "e", "r", ",", " ", "P", "y", "t", "h",
         "o", "n" >>,
      << "Q", "A", " ", "t", "e", "s", "t", "e", "r" >>,
      << "c", "+", "+", " ", "5", "y" >> }

\* What Vertex answers in the model
VertexReplies ==
    { Reply(t) : t \in
        { << "D", "a", "t", "a", " ", "E", "n", "g", "i", "n", "e", "e", "r",
             " ", "P", "y", "t", "h", "o", "n" >>,
          << "\"", "Q", "A", " ", "t", "e", "s", "t", "e", "r", "\"" >>,
          << "Q", "u", "e", "r", "y", ":", " ", "M", "L", " ", "o", "p", "s" >>,
          << "BQ", "BQ", "BQ", "\n", "Q", "A", " ", "t", "e", "s", "t", "e",
             "r", "\n", "BQ", "BQ", "BQ" >>,
          << "Q", "A" >>,
          <<>>,
          << "s", "e", "n", "i", "o", "r", " ", "p", "r", "i", "n", "c", "i",
             "p", "a", "l", " ", "d", "i", "s", "t", "r", "i", "b", "u", "t",
             "e", "d", " ", "i", "n", "f", "r", "a", "s", "t", "r", "u", "c",
             "t", "u", "r", "e", " ", "r", "e", "l", "i", "a", "b", "i", "l",
             "i", "t", "y", " ", "l", "e", "a", "d" >> } }
      \cup { ReplyRaises }

\* line 689
ItemsCap == 20

\* line 724: company_jobs[:10]
CompanyCap == 10

\* line 724: other_jobs[:5]
OtherCap == 5

\* a field of a provider item that should be a string: the key is absent, its
\* value is null, or it is the string s
Absent == [kind |-> "absent", s |-> <<>>]

Str(s) == [kind |-> "str", s |-> s]

\* A provider item: whether it is a dict, whether its title and its description
\* are truthy, its via and its company_name, and whether the Qualifications of
\* its job_highlights can be joined (a list of strings, or nothing)
Item(dict, title, description, via, company_name) ==
    [dict |-> dict, title |-> title, description |-> description,
     via |-> via, company_name |-> company_name, joinable |-> TRUE]

Acme == << "A", "c", "m", "e" >>

\* The items the model draws provider payloads from, by name
ItemOf(name) ==
    CASE name = "direct" ->
           Item(TRUE, TRUE, TRUE, Str(<< "D", "i", "r", "e", "c", "t" >>), Str(Acme))
      [] name = "by_name" ->
           Item(TRUE, TRUE, TRUE, Str(<< "v", "i", "a", " ", "A", "c", "m", "e" >>), Str(Acme))
      [] name = "board" ->
           Item(TRUE, TRUE, TRUE, Str(<< "v", "i", "a", " ", "J", "o", "b", "s" >>), Str(Acme))
      [] name = "no_company_name" ->
           Item(TRUE, TRUE, TRUE, Str(<< "v", "i", "a", " ", "J", "o", "b", "s" >>), Absent)
      [] name = "no_description" ->
           Item(TRUE, TRUE, FALSE, Str(<< "D", "i", "r", "e", "c", "t" >>), Str(Acme))
      [] name = "via_null" ->
           Item(TRUE, TRUE, TRUE, [kind |-> "null", s |-> <<>>], Str(Acme))
      [] name = "not_a_dict" ->
           Item(FALSE, FALSE, FALSE, Absent, Absent)
      [] name = "bad_highlights" ->
           [Item(TRUE, TRUE, TRUE, Str(<< "v", "i", "a", " ", "J", "o", "b", "s" >>),
                 Str(Acme)) EXCEPT !.joinable = FALSE]

ItemNames ==
    { "direct", "by_name", "board", "no_company_name", "no_description", "via_null",
      "not_a_dict", "bad_highlights" }

\* lines 692-705: "company", "other", or "raises" when "\n".join meets what is
\* not a string (line 699) or .lower() is called on null
Classified(item) ==
    LET via == Lower(item.via.s) IN
    IF ~item.joinable THEN "raises"
    ELSE IF item.via.kind = "null" THEN "raises"
    ELSE IF \/ Contains(via, << "c", "o", "m", "p", "a", "n", "y" >>)
            \/ Contains(via, << "d", "i", "r", "e", "c", "t" >>) THEN "company"
    ELSE IF item.company_name.kind = "null" THEN "raises"
    ELSE IF Contains(via, Lower(item.company_name.s)) THEN "company"
    ELSE "other"

\* job_data of lines 707-716, as far as the model follows it: the place of the
\* item in the payload, and its source
JobData(k, source) == [id |-> k, source |-> source]

\* what one iteration of the loop of line 689 does with each item of the
\* model: "skipped" by the test of line 690, "company", "other" or "raises"
ItemClass ==
    [name \in ItemNames |->
        LET item == ItemOf(name)
        IN  IF item.dict /\ item.title /\ item.description
            THEN Classified(item)
            ELSE "skipped"]

\* the places k of items, in order, whose item is complete and classified as c
Places(items, c) ==
    LET Is(k) == ItemClass[items[k]] = c
    IN  SelectSeq([k \in 1..Len(items) |-> k], Is)

\* a slice that keeps the whole list
Uncapped(s, n) == s

\* s[:n] of line 724
Capped(s, n) == Take(s, n)

\* lines 686-724: external_jobs for the items of a payload; "raised" tells that
\* the loop raised, and then external_jobs is still the [] of line 623
Normalized(items) ==
    LET seen == Take(items, ItemsCap)
        company == Places(seen, "company")
        other == Places(seen, "other")
        company_jobs == [k \in 1..Len(company) |-> JobData(company[k], "company")]
        other_jobs == [k \in 1..Len(other) |-> JobData(other[k], "other")]
    IN  IF Len(Places(seen, "raises")) > 0
        THEN [raised |-> TRUE, external_jobs |-> <<>>]
        ELSE [raised |-> FALSE,
              external_jobs |-> Capped(company_jobs, CompanyCap)
                                  \o Capped(other_jobs, OtherCap)]

\* line 1070
RagItemsCap == 15

\* lines 1068-1090 of api_rag_search: external_jobs for the items of a payload.
\* Each complete item is appended to external_jobs as soon as it is read (line
\* 1082), so the items read before one that raises stay in the list.
RagNormalized(items) ==
    LET seen == Take(items, RagItemsCap)
        Complete(k) == LET item == ItemOf(seen[k])
                       IN  item.dict /\ item.title /\ item.description
        raising == { k \in 1..Len(seen) : Complete(k) /\ ~ItemOf(seen[k]).joinable }
        last == IF raising = {} THEN Len(seen)
                ELSE (CHOOSE k \in raising : \A n \in raising : k <= n) - 1
        Kept(k) == k <= last /\ Complete(k)
        kept == SelectSeq([k \in 1..Len(seen) |-> k], Kept)
    IN  [raised |-> raising # {},
         external_jobs |-> [k \in 1..Len(kept) |-> JobData(kept[k], "external")]]

\* The payloads of the model: up to n runs of one item each, a run being long
\* enough to fill a group of line 724 or not
RECURSIVE Payloads(_)
Payloads(n) ==
    IF n = 0 THEN { <<>> }
    ELSE Payloads(n - 1)
           \cup { p \o [k \in 1..len |-> name] :
                    p \in Payloads(n - 1), name \in ItemNames,
                    len \in { 1, OtherCap + 1, CompanyCap + 1 } }

FetchInit ==
    /\ handler = "none"
    /\ f_pc = "idle"
    /\ f_resume = <<>>
    /\ f_chat = [generated |-> FALSE, short |-> FALSE, made |-> FALSE,
                 vertex_raised |-> FALSE, openai_client |-> FALSE,
                 openai_called |-> FALSE]
    /\ query = <<>>
    /\ f_items = <<>>
    /\ external_jobs = <<>>
    /\ f_outcome = "none"

\* lines 622-630 and 726-727 of api_match, lines 975-982 of api_rag_search:
\* SERPAPI_KEY is read
FetchBegin ==
    /\ UNCHANGED <<m_vars, r_vars, c_vars, s_vars, g_vars, q_vars, t_vars>>
    /\ f_pc = "idle"
    /\ \E h \in {"match", "rag"}, key \in BOOLEAN, resume_text \in FetchResumes :
          /\ handler' = h
          /\ f_resume' = resume_text
          /\ f_pc' = IF key THEN "query" ELSE "done"
          /\ f_outcome' = IF key THEN f_outcome ELSE "no_key"
    /\ UNCHANGED <<f_chat, query, f_items, external_jobs>>

\* lines 631-672 of api_match, lines 984-1057 of api_rag_search: chat_complete
\* is called and the query derived
FetchQuery ==
    /\ UNCHANGED <<m_vars, r_vars, c_vars, s_vars, g_vars, q_vars, t_vars>>
    /\ f_pc = "query"
    /\ \E use_vertex, openai_client \in BOOLEAN,
          vertex \in VertexReplies,
          \* what OpenAI answers in the model
          openai \in { Reply(<< "M", "L", " ", "o", "p", "s" >>), ReplyRaises } :
          LET prompt == IF handler = "match" THEN QueryPrompt(f_resume)
                        ELSE RagQueryPrompt(f_resume)
              text == ChatComplete(prompt, use_vertex, vertex, openai_client, openai)
              branch == Branch(use_vertex, vertex, openai_client, openai)
          IN
          /\ query' = IF handler = "match" THEN DerivedQuery(Said(text), f_resume)
                       ELSE RagDerivedQuery(Said(text), f_resume)
          /\ f_chat' = [\* a generator wrote the text that is returned
                        generated |-> branch \in {"vertex", "openai"},
                        \* the test of line 652 of api_match
                        short |-> Len(CleanedQuery(text)) < MinQueryChars,
                        made |-> TRUE,
                        vertex_raised |-> use_vertex /\ vertex.raises,
                        openai_client |-> openai_client,
                        \* line 137 is reached and the client is set
                        openai_called |-> /\ branch \in {"openai", "apology"}
                                          /\ openai_client]
    /\ f_pc' = "request"
    /\ UNCHANGED <<handler, f_resume, f_items, external_jobs, f_outcome>>

\* lines 674-684 of api_match, lines 1059-1069 of api_rag_search: the request,
\* and the reading of its payload.  api_match raises on a status that is not
\* 2xx (line 682), api_rag_search skips the payload when it is not 200 (line
\* 1067); both end the fetch.
FetchRequest ==
    /\ UNCHANGED <<m_vars, r_vars, c_vars, s_vars, g_vars, q_vars, t_vars>>
    /\ f_pc = "request"
    /\ \/ \E f \in FetchFailures :
             /\ f_outcome' = f
             /\ f_pc' = "done"
             /\ f_items' = f_items
       \/ \E p \in Payloads(MaxRuns) :
             /\ f_items' = p
             /\ f_pc' = "items"
             /\ f_outcome' = f_outcome
    /\ UNCHANGED <<handler, f_resume, f_chat, query, external_jobs>>

\* lines 686-725 of api_match, lines 1070-1090 of api_rag_search: the loop over
\* the items, and the list built from them
FetchNormalize ==
    /\ UNCHANGED <<m_vars, r_vars, c_vars, s_vars, g_vars, q_vars, t_vars>>
    /\ f_pc = "items"
    /\ LET built == IF handler = "match" THEN Normalized(f_items)
                    ELSE RagNormalized(f_items)
       IN
          /\ external_jobs' = built.external_jobs
          /\ f_outcome' = IF built.raised THEN "payload" ELSE "ok"
    /\ f_pc' = "done"
    /\ UNCHANGED <<handler, f_resume, f_chat, query, f_items>>

FetchNext ==
    \/ FetchBegin
    \/ FetchQuery
    \/ FetchRequest
    \/ FetchNormalize

-----------------------------------------------------------------------------
(* api_submit_answers (src/app.py 1259-1316) *)

\* What chat_complete returns for a validation prompt, in the tokens of
\* LlmTexts and "[", "]" for an array, "N" for a number, "Q" for a string
\* literal: prose, an object with a score and feedback, an object with no
\* score, an object whose score is a word, an object whose score is null, an
\* empty array, a number, a string literal, an object after some prose
ValidationTexts ==
    { <<"t">>,
      <<"{", "S90", ",", "E", "}">>,
      <<"{", "E", "}">>,
      <<"{", "Sx", "}">>,
      <<"{", "Sn", "}">>,
      <<"[", "]">>,
      <<"N">>,
      <<"Q">>,
      <<"t", "{", "S20", "}">> }

\* the score of line 1293
DefaultScore == 70

\* lines 1290-1295 for one answer: the score added to total_score, or an
\* exception that the try of line 1290 does not cover
Validated(out) ==
    LET \* json.loads(out) gives a list or a scalar
        IsJsonOther ==
            \/ out \in { <<"N">>, <<"Q">> }
            \/ /\ Len(out) >= 2
               /\ out[1] = "["
               /\ out[Len(out)] = "]"
               /\ LET inner == SubSeq(out, 2, Len(out) - 1)
                  IN  \/ Len(inner) = 0
                      \/ /\ Len(inner) % 2 = 1
                         /\ \A k \in 1..Len(inner) :
                               IF k % 2 = 1 THEN inner[k] \in {"N", "Q"}
                               ELSE inner[k] = ","
    IN
    IF IsJsonObject(out)
    THEN IF ScoreMember(out) = "absent" THEN [raised |-> FALSE, score |-> DefaultScore]
         ELSE IF IsNumeric(ScoreMember(out))
              THEN [raised |-> FALSE, score |-> IntOf(ScoreMember(out))]
         ELSE [raised |-> TRUE, score |-> 0]
    ELSE IF IsJsonOther THEN [raised |-> TRUE, score |-> 0]
    ELSE [raised |-> FALSE, score |-> DefaultScore]

\* kind: "none" | "bad_request" | "ok" | "error"
SubmitResponse(kind, status, percent, passed) ==
    [kind |-> kind, status |-> status, score |-> percent, passed |-> passed]

SubmitInit ==
    /\ s_pc = "idle"
    /\ n_questions = 0
    /\ s_outs = <<>>
    /\ s_results = <<>>
    /\ total_score = 0
    /\ pass_threshold = 0
    /\ saved = FALSE
    /\ s_resp = SubmitResponse("none", 0, 0, FALSE)

\* lines 1268-1280: the payload is read
ApiSubmitBegin ==
    /\ UNCHANGED <<m_vars, r_vars, c_vars, f_vars, g_vars, q_vars, t_vars>>
    /\ s_pc = "idle"
    /\ \E user_id, job_id \in BOOLEAN, n \in 0..MaxQuestions :
          IF ~user_id \/ ~job_id
          THEN /\ s_pc' = "done"
               /\ s_resp' = SubmitResponse("bad_request", 400, 0, FALSE)
               /\ n_questions' = n_questions
          ELSE /\ s_pc' = IF n > 0 THEN "loop" ELSE "finish"
               /\ s_resp' = s_resp
               /\ n_questions' = n
    /\ UNCHANGED <<s_outs, s_results, total_score, pass_threshold, saved>>

\* lines 1281-1295: one iteration of the loop over questions; an exception is
\* caught only at line 1314
ApiSubmitIter ==
    /\ UNCHANGED <<m_vars, r_vars, c_vars, f_vars, g_vars, q_vars, t_vars>>
    /\ s_pc = "loop"
    /\ Len(s_outs) < n_questions
    /\ \E out \in ValidationTexts :
          LET v == Validated(out) IN
          /\ s_outs' = Append(s_outs, out)
          /\ IF v.raised
             THEN /\ s_pc' = "done"
                  /\ s_resp' = SubmitResponse("error", 500, 0, FALSE)
                  /\ UNCHANGED <<s_results, total_score>>
             ELSE /\ s_results' = Append(s_results, v.score)
                  /\ total_score' = total_score + v.score
                  /\ s_pc' = IF Len(s_outs) + 1 < n_questions THEN "loop" ELSE "finish"
                  /\ s_resp' = s_resp
    /\ UNCHANGED <<n_questions, pass_threshold, saved>>

\* lines 1296-1313: percent, status, save_application, the response
ApiSubmitFinish ==
    /\ UNCHANGED <<m_vars, r_vars, c_vars, f_vars, g_vars, q_vars, t_vars>>
    /\ s_pc = "finish"
    \* PASS_THRESHOLD is the default 60, or 80; percent is that of line 1296;
    \* both in hundredths of a percent
    /\ \E threshold \in { 6000, 8000 } :
          LET percent == IF n_questions = 0 THEN 0
                         ELSE (2 * total_score * 100 + n_questions)
                                 \div (2 * n_questions)
          IN
          /\ pass_threshold' = threshold
          /\ s_resp' = SubmitResponse("ok", 200, percent, percent >= threshold)
    /\ saved' = TRUE
    /\ s_pc' = "done"
    /\ UNCHANGED <<n_questions, s_outs, s_results, total_score>>

SubmitNext ==
    \/ ApiSubmitBegin
    \/ ApiSubmitIter
    \/ ApiSubmitFinish

-----------------------------------------------------------------------------
(* get_secret (src/gcp_secrets.py 28-77) *)

\* a value that may be None
None == [none |-> TRUE, s |-> ""]

Some(s) == [none |-> FALSE, s |-> s]

\* the body of get_secret, lines 46-77; project: _resolve_project_id gives one
GetSecretBody(env, project, manager, default, required) ==
    IF ~env.none
    THEN [raised |-> FALSE, value |-> env, contacted |-> FALSE]
    ELSE IF ~project
         THEN IF required /\ default.none
              THEN [raised |-> TRUE, value |-> None, contacted |-> FALSE]
              ELSE [raised |-> FALSE, value |-> default, contacted |-> FALSE]
    ELSE IF manager = "payload"
         THEN [raised |-> FALSE, value |-> Some("from_manager"), contacted |-> TRUE]
    ELSE IF required /\ default.none
         THEN [raised |-> TRUE, value |-> None, contacted |-> TRUE]
    ELSE [raised |-> FALSE, value |-> default, contacted |-> TRUE]

SecretInit ==
    /\ g_env = None
    /\ secret_cache = [a \in {} |-> None]
    /\ g_last = [made |-> FALSE, args |-> [default |-> None, required |-> FALSE],
                 env |-> None, project |-> FALSE, manager |-> "payload",
                 hit |-> FALSE, raised |-> FALSE, value |-> None,
                 contacted |-> FALSE]

\* the environment variable is set or unset between two calls
SetEnv ==
    /\ UNCHANGED <<m_vars, r_vars, c_vars, f_vars, s_vars, q_vars, t_vars>>
    \* os.getenv(secret_id): unset, or the value "from_env"
    /\ \E e \in { None, Some("from_env") } :
          /\ e # g_env
          /\ g_env' = e
    /\ UNCHANGED <<secret_cache, g_last>>

\* get_secret(secret_id, default=..., required=...), lines 28-77: a value the
\* function returned is kept by the lru_cache, an exception is not
GetSecret ==
    /\ UNCHANGED <<m_vars, r_vars, c_vars, f_vars, s_vars, q_vars, t_vars>>
    \* args: what the lru_cache of line 28 keys a call by (secret_id, project_id
    \* and version are the same in every call of the model), the default being
    \* None or "fallback"; manager: access_secret_version gives the payload
    \* "from_manager", NotFound, or another GoogleAPICallError
    /\ \E args \in [default : { None, Some("fallback") }, required : BOOLEAN],
          project \in BOOLEAN, manager \in { "payload", "not_found", "api_error" } :
          LET hit == args \in DOMAIN secret_cache
              body == GetSecretBody(g_env, project, manager, args.default, args.required)
              res == IF hit
                     THEN [raised |-> FALSE, value |-> secret_cache[args],
                           contacted |-> FALSE]
                     ELSE body
          IN
          /\ g_last' = [made |-> TRUE, args |-> args, env |-> g_env,
                        project |-> project, manager |-> manager, hit |-> hit,
                        raised |-> res.raised, value |-> res.value,
                        contacted |-> res.contacted]
          /\ secret_cache' =
                IF hit \/ res.raised THEN secret_cache
                ELSE [a \in DOMAIN secret_cache \cup {args} |->
                         IF a = args THEN res.value ELSE secret_cache[a]]
    /\ g_env' = g_env

SecretNext ==
    \/ SetEnv
    \/ GetSecret

-----------------------------------------------------------------------------
(* api_generate_questions (src/app.py 423-509).  A text is a sequence of  *)
(* elements: "[", "]", ",", "Q" for a JSON string, "O" for a JSON object   *)
(* without brackets, "x" for a word of prose.                               *)

\* the questions of a response, by where each comes from
Questions(kind, n) == [k \in 1..n |-> kind]

\* what chat_complete can answer: arrays of 0 to 6 questions, an array inside
\* prose or inside an object, two arrays, a bare string, an object, prose
QuestionTexts ==
    { <<"[", "]">>,
      <<"[", "Q", "]">>,
      <<"[", "Q", ",", "Q", "]">>,
      <<"[", "Q", ",", "Q", ",", "Q", ",", "Q", "]">>,
      <<"[", "Q", ",", "Q", ",", "Q", ",", "Q", ",", "Q", "]">>,
      <<"x", "[", "Q", ",", "Q", ",", "Q", ",", "Q", ",", "Q", ",", "Q", "]", "x">>,
      <<"[", "Q", "]", "x", "[", "Q", "]">>,
      <<"[", "Q", ",", "]">>,
      <<"Q">>,
      <<"O">>,
      <<"x", "x">>,
      <<"]", "x", "[">> }

\* lines 470-482: re.search(r'\[.*\]', response, re.DOTALL) is the span from
\* the first "[" to the last "]" after it; json.loads of the span, or of the
\* whole response when there is no span; a value that is no list becomes a
\* list of one string.  n: len(questions)
ParsedQuestions(response) ==
    LET opens == { k \in 1..Len(response) : response[k] = "[" }
        first == CHOOSE k \in opens : \A n \in opens : k <= n
        closes == { k \in 1..Len(response) : response[k] = "]" /\ k > first }
        last == CHOOSE k \in closes : \A n \in closes : k >= n
        json_match == opens # {} /\ closes # {}
        inner == SubSeq(response, first + 1, last - 1)
        is_array == \/ inner = <<>>
                    \/ /\ Len(inner) % 2 = 1
                       /\ \A k \in 1..Len(inner) :
                             inner[k] = IF k % 2 = 1 THEN "Q" ELSE ","
    IN
    IF json_match
    THEN IF is_array THEN [raised |-> FALSE, n |-> (Len(inner) + 1) \div 2]
         ELSE [raised |-> TRUE, n |-> 0]
    ELSE IF response \in { <<"Q">>, <<"O">> } THEN [raised |-> FALSE, n |-> 1]
    ELSE [raised |-> TRUE, n |-> 0]

\* the number of questions the handler asks for at least (line 485)
MinQuestions == 5

\* the skills a generic question is written for (skills[:3], line 488)
GenericSkills == 3

\* fallback_questions, lines 499-505
FallbackQuestions == Questions("fallback", 5)

\* lines 484-490: generic_questions holds one question per skill of the first
\* three, for skills that is a list; questions.extend(generic_questions[:5 - n])
ToppedUp(n, skills) ==
    LET generic == IF skills.is_list
                   THEN Questions("skill", IF skills.n < GenericSkills THEN skills.n
                                           ELSE GenericSkills)
                   ELSE <<>>
    IN
    IF n < MinQuestions
    THEN Questions("generated", n) \o Take(generic, MinQuestions - n)
    ELSE Questions("generated", n)

QuestionsInit ==
    /\ q_last = [made |-> FALSE, job |-> FALSE, skills |-> [is_list |-> TRUE, n |-> 0],
                 body |-> "object", chat |-> ChatRaised, db |-> "ok",
                 status |-> 0, ok |-> FALSE, questions |-> <<>>, note |-> FALSE]
    /\ q_saved = <<>>

\* POST /api/jobs/<job_id>/generate-questions, lines 423-509
ApiGenerateQuestions ==
    /\ UNCHANGED <<m_vars, r_vars, c_vars, f_vars, s_vars, g_vars, t_vars>>
    \* job: get_job_by_id finds the job; skills: json.loads of the skills column
    \* (a list of n strings, or another value); body: the payload is a JSON
    \* object (or null), a JSON value without get, or no JSON; chat: what
    \* chat_complete does; db: the UPDATE of line 493 succeeds or raises.  What
    \* a call does not come to read is left at its first value
    /\ \E job \in BOOLEAN, skills \in [is_list : BOOLEAN, n : 0..MaxSkills],
          body \in { "object", "other", "invalid" },
          chat \in { Said(t) : t \in QuestionTexts } \cup { ChatRaised },
          db \in { "ok", "raises" } :
          LET parsed == ParsedQuestions(chat.text)
              read_body == job
              read_chat == read_body /\ body = "object"
              read_db == read_chat /\ ~chat.raised /\ ~parsed.raised
              questions == ToppedUp(parsed.n, skills)
              failed == chat.raised \/ parsed.raised \/ db = "raises"
              resp == IF ~job
                      THEN [status |-> 404, ok |-> FALSE, questions |-> <<>>,
                            note |-> FALSE]
                      ELSE IF body # "object"
                      THEN [status |-> 500, ok |-> FALSE, questions |-> <<>>,
                            note |-> FALSE]
                      ELSE IF failed
                      THEN [status |-> 200, ok |-> TRUE,
                            questions |-> FallbackQuestions, note |-> TRUE]
                      ELSE [status |-> 200, ok |-> TRUE, questions |-> questions,
                            note |-> FALSE]
          IN
          /\ read_body \/ body = "object"
          /\ read_chat \/ (chat = ChatRaised /\ skills = [is_list |-> TRUE, n |-> 0])
          /\ read_db \/ db = "ok"
          /\ skills.is_list \/ skills.n = 0
          /\ q_last' = [made |-> TRUE, job |-> job, skills |-> skills, body |-> body,
                        chat |-> chat, db |-> db, status |-> resp.status,
                        ok |-> resp.ok, questions |-> resp.questions,
                        note |-> resp.note]
          /\ q_saved' = IF job /\ body = "object" /\ ~failed THEN questions
                        ELSE q_saved

-----------------------------------------------------------------------------
(* The tool endpoints of the MCP server (src/mcp_server.py 91-190).  A     *)
(* handler that returns a dict answers with status 200; an HTTPException   *)
(* that leaves the handler answers with its status code.                   *)

\* the required argument of a call: not in the payload, "", or a text
ToolArgs == { "absent", "empty", "text" }

\* the default limit of search_jobs (line 96)
DefaultLimit == 10

\* the response of a tool endpoint; results: len(results) of search_jobs
ToolResponse(status, ok, kind, n) ==
    [status |-> status, ok |-> ok, kind |-> kind, results |-> n]

\* raise HTTPException(status_code=400, ...) inside the try of each tool
\* (lines 98-99, 146-147, 176-177): the except Exception of the same try
\* (lines 136, 166, 189) catches it and returns a dict
Rejected == ToolResponse(200, FALSE, "error", 0)

ToolsInit ==
    /\ t_last = [made |-> FALSE, tool |-> "none", arg |-> "absent",
                 resp |-> ToolResponse(0, FALSE, "none", 0), outbound |-> FALSE]
    /\ t_requests = <<>>

\* POST /tools/search_jobs, lines 91-137
SearchJobsTool ==
    /\ UNCHANGED <<m_vars, r_vars, c_vars, f_vars, s_vars, g_vars, q_vars>>
    /\ Len(t_requests) < MaxToolCalls
    \* q: the argument query; api_key: SERPAPI_KEY is set; limit; provider: the
    \* request gives n items with a title, a status raise_for_status raises
    \* for, or raises itself
    /\ \E q \in ToolArgs, api_key \in BOOLEAN, limit \in { DefaultLimit, 1 },
          provider \in { "items0", "items2", "http", "network" } :
          LET outbound == q = "text" /\ api_key
              items == IF provider = "items2" THEN 2 ELSE 0
              resp == IF q # "text" THEN Rejected
                      ELSE IF ~api_key THEN ToolResponse(200, FALSE, "no_key", 0)
                      ELSE IF provider \in { "http", "network" }
                      THEN ToolResponse(200, FALSE, "error", 0)
                      ELSE ToolResponse(200, TRUE, "results",
                                        IF items < limit THEN items ELSE limit)
          IN
          /\ t_last' = [made |-> TRUE, tool |-> "search_jobs", arg |-> q,
                        resp |-> resp, outbound |-> outbound]
          /\ t_requests' = IF outbound THEN Append(t_requests, "serpapi")
                           ELSE t_requests

\* POST /tools/match_resume_to_jobs, lines 139-167
MatchResumeTool ==
    /\ UNCHANGED <<m_vars, r_vars, c_vars, f_vars, s_vars, g_vars, q_vars>>
    /\ Len(t_requests) < MaxToolCalls
    \* internal: /api/rag-search answers 200, answers another status, or the
    \* request raises
    /\ \E resume_text \in ToolArgs, internal \in { "200", "other", "raises" } :
          LET outbound == resume_text = "text"
              resp == IF resume_text # "text" THEN Rejected
                      ELSE IF internal = "200" THEN ToolResponse(200, TRUE, "data", 0)
                      ELSE ToolResponse(200, FALSE, "error", 0)
          IN
          /\ t_last' = [made |-> TRUE, tool |-> "match_resume_to_jobs",
                        arg |-> resume_text, resp |-> resp, outbound |-> outbound]
          /\ t_requests' = IF outbound THEN Append(t_requests, "rag-search")
                           ELSE t_requests

\* POST /tools/get_job_details, lines 169-190
GetJobDetailsTool ==
    /\ UNCHANGED <<m_vars, r_vars, c_vars, f_vars, s_vars, g_vars, q_vars>>
    /\ Len(t_requests) < MaxToolCalls
    /\ \E job_id \in ToolArgs, internal \in { "200", "other", "raises" } :
          LET outbound == job_id = "text"
              resp == IF job_id # "text" THEN Rejected
                      ELSE IF internal = "200" THEN ToolResponse(200, TRUE, "data", 0)
                      ELSE ToolResponse(200, FALSE, "error", 0)
          IN
          /\ t_last' = [made |-> TRUE, tool |-> "get_job_details", arg |-> job_id,
                        resp |-> resp, outbound |-> outbound]
          /\ t_requests' = IF outbound THEN Append(t_requests, "jobs")
                           ELSE t_requests

ToolsNext ==
    \/ SearchJobsTool
    \/ MatchResumeTool
    \/ GetJobDetailsTool

-----------------------------------------------------------------------------
(* Specifications.  The model follows one request from its arrival to its  *)
(* response; only the embedding cache is followed under two request        *)
(* threads.                                                                 *)

Init ==
    /\ MatchInit /\ RagInit /\ CacheInit /\ FetchInit /\ SubmitInit /\ SecretInit
    /\ QuestionsInit /\ ToolsInit

Next ==
    \/ MatchNext \/ RagNext \/ CacheNext \/ CacheLookup \/ CacheFill \/ FetchNext
    \/ SubmitNext \/ SecretNext \/ ApiGenerateQuestions \/ ToolsNext

Spec == Init /\ [][Next]_vars

\* api_match alone
SpecMatch == Init /\ [][MatchNext]_vars

\* api_rag_search alone
SpecRag == Init /\ [][RagNext]_vars

\* the embedding cache alone, called with any texts in any order
SpecCache == Init /\ [][CacheNext]_vars

\* the embedding cache alone, called from two request threads at once
SpecCacheThreads ==
    Init /\ [][CacheLookup \/ CacheFill \/ ClearEmbeddingCache]_vars

\* the external fetch of api_match and that of api_rag_search alone
SpecFetch == Init /\ [][FetchNext]_vars

\* api_submit_answers alone
SpecSubmit == Init /\ [][SubmitNext]_vars

\* get_secret alone, called any number of times while the environment changes
SpecSecret == Init /\ [][SecretNext]_vars

\* api_generate_questions alone
SpecQuestions == Init /\ [][ApiGenerateQuestions]_vars

\* the tool endpoints of the MCP server alone
SpecTools == Init /\ [][ToolsNext]_vars


-----------------------------------------------------------------------------
(* Claims about api_match, checked under SpecMatch *)

NonIncreasing(ms) ==
    \A k \in 1..(Len(ms) - 1) : ms[k].similarity >= ms[k + 1].similarity

Answered == m_resp.kind = "matches"

\* C1: the effective threshold is max(40, t), with t = 100 * v for a configured
\* value v < 1 and t = v otherwise; a configured 10 or 0.10 gives exactly 40.0,
\* and the threshold_pct of a response is never below 40.
C1_ThresholdFloor ==
    Answered =>
        LET v == threshold_env
            t == IF v < 100 THEN 100 * v ELSE v
            reported == m_resp.body.threshold_pct
        IN  /\ reported = (IF t > 4000 THEN t ELSE 4000)
            /\ reported >= 4000
            /\ (v \in { 10, 1000 } => reported = 4000)

C1_Witness ==
    /\ Answered
    /\ threshold_env = 10
    /\ m_resp.body.threshold_pct = 4000

\* C2: when at least one local match was scored and none reaches the effective
\* threshold, the combined list is the local matches scoring >= 30% in
\* descending similarity, followed by the external matches that reach the
\* threshold.
C2_Backfill ==
    Answered =>
        LET thr == m_resp.body.threshold_pct
            Above30(m) == m.similarity >= 3000
            Reaches(m) == m.similarity >= thr
            readmitted == SelectSeq(local_matches, Above30)
        IN  (/\ Len(local_matches) > 0
             /\ \A k \in 1..Len(local_matches) : local_matches[k].similarity < thr)
            => /\ m_resp.body.matches =
                      readmitted \o SelectSeq(external_matches, Reaches)
               /\ NonIncreasing(readmitted)

\* one local job at 35%, one external job at 60%, threshold 50%
C2_Witness ==
    /\ Answered
    /\ m_resp.body.threshold_pct = 5000
    /\ Len(m_resp.body.matches) = 2
    /\ m_resp.body.matches[1].source = "local"
    /\ m_resp.body.matches[1].similarity = 3500
    /\ m_resp.body.matches[2].source = "external"
    /\ m_resp.body.matches[2].similarity = 6000

\* C3: a local job is excluded by the preferred_location filter only when it
\* has a location that does not contain the filter; a local job with no
\* location is never excluded by it.
C3_LocationLenience ==
    (m_job.source = "local" /\ m_decision = "location") =>
        /\ m_job.location.is_str
        /\ m_job.location.s # <<>>
        /\ ~Contains(Lower(m_job.location.s), preferred_location)

C3_Witness ==
    /\ m_job.source = "local"
    /\ ~m_job.location.is_str
    /\ preferred_location # <<>>
    /\ m_decision = "kept"

\* C4: with job_type = "any" no job, local or external, is excluded because
\* its title and description do not contain the term.
C4_AnyDisablesJobType ==
    ~(job_type = <<"a","n","y">> /\ m_decision = "job_type")

\* C5: in every successful response every local match comes before every
\* external match, and within each group the similarities do not increase.
C5_CombinedOrder ==
    Answered =>
        LET ms == m_resp.body.matches IN
        \A a, b \in 1..Len(ms) :
            a < b =>
                /\ (ms[a].source = "external" => ms[b].source = "external")
                /\ (ms[a].source = ms[b].source =>
                        ms[a].similarity >= ms[b].similarity)

\* a backfilled response: two local matches below the threshold, then an external one
C5_Witness ==
    /\ Answered
    /\ Len(m_resp.body.matches) = 3
    /\ m_resp.body.matches[1].source = "local"
    /\ m_resp.body.matches[1].similarity < m_resp.body.threshold_pct
    /\ m_resp.body.matches[1].similarity > m_resp.body.matches[2].similarity
    /\ m_resp.body.matches[1].id > m_resp.body.matches[2].id
    /\ m_resp.body.matches[2].source = "local"
    /\ m_resp.body.matches[3].source = "external"

-----------------------------------------------------------------------------
(* Claims about api_rag_search, checked under SpecRag *)

RagAnswered == r_resp.kind = "results"

Clearing(floor) == { i \in 1..Len(sims) : sims[i] >= floor }

Returned == { r_resp.results[k].idx : k \in 1..Len(r_resp.results) }

\* what chat_complete did for the candidate of result entry e
OutcomeOf(e) ==
    llm_outs[CHOOSE p \in 1..Len(raw_results) : raw_results[p].idx = e.idx]

NoJsonObjectAnywhere(text) ==
    ~\E a, b \in 1..Len(text) : a <= b /\ IsJsonObject(SubSeq(text, a, b))

\* C6 as stated: with the default floor, if no candidate has similarity >= 0.30
\* and at least one has similarity >= 0.20, the result is not empty and holds
\* the candidates with similarity >= 0.20 (up to top_k); the floor is relaxed at
\* most once per call and only when no candidate clears the first floor.
C6_RelaxationAsStated ==
    RagAnswered =>
        /\ (/\ rag_floor_env = 30000
            /\ Clearing(30000) = {}
            /\ Clearing(20000) # {})
           => /\ Len(r_resp.results) > 0
              /\ Returned \subseteq Clearing(20000)
              /\ \/ Returned = Clearing(20000)
                 \/ Len(r_resp.results) = top_k
        /\ relaxations <= 1
        /\ (relaxations = 1 => Clearing(rag_floor_env) = {})

\* C6, amended: the same for top_k >= 1.
C6_Relaxation ==
    RagAnswered =>
        /\ (/\ top_k >= 1
            /\ rag_floor_env = 30000
            /\ Clearing(30000) = {}
            /\ Clearing(20000) # {})
           => /\ Len(r_resp.results) > 0
              /\ Returned \subseteq Clearing(20000)
              /\ \/ Returned = Clearing(20000)
                 \/ Len(r_resp.results) = top_k
        /\ relaxations <= 1
        /\ (relaxations = 1 => Clearing(rag_floor_env) = {})

C6_Witness ==
    /\ RagAnswered
    /\ top_k = 1
    /\ rag_floor_env = 30000
    /\ relaxations = 1
    /\ Cardinality(Clearing(20000)) = 2
    /\ Len(r_resp.results) = 1

\* C7: with rerank enabled, an entry whose text-generation response holds no
\* JSON object anywhere has the raw response as its explanation and no
\* llm_score, and no error is raised.
C7_NoJsonFallback ==
    /\ r_resp.kind # "error"
    /\ rerank =>
          \A k \in 1..Len(results) :
              LET o == OutcomeOf(results[k]) IN
              (~o.raised /\ NoJsonObjectAnywhere(o.text)) =>
                  /\ results[k].match_explanation = o.text
                  /\ ~results[k].has_llm_score

\* C8: the jobs returned are those of the retrieval step, with rerank enabled
\* or disabled and whatever each text-generation call returns or raises; every
\* candidate the loop has visited is in the results.
C8_SameJobs ==
    /\ r_i = Len(results)
    /\ RagAnswered =>
          LET expected == TopSims(sims, rag_floor_env, top_k) IN
          /\ Len(r_resp.results) = Len(expected)
          /\ Returned = { expected[k].idx : k \in 1..Len(expected) }
          /\ Cardinality(Returned) = Len(expected)
          /\ (rerank => Len(llm_outs) = Len(expected))

\* the first of two candidates failed in chat_complete, the second was reranked
C8_Witness ==
    /\ RagAnswered
    /\ rerank
    /\ Len(r_resp.results) = 2
    /\ llm_outs[1].raised
    /\ ~llm_outs[2].raised

SortKey(e) == IF e.has_llm_score THEN e.llm_score * 100 ELSE e.match_score

\* C9: if a candidate received a numeric LLM score, the results are in
\* non-increasing order of the key (llm_score, else the embedding score as a
\* percentage); otherwise, or with rerank off, in non-increasing order of
\* embedding similarity.
C9_FinalOrder ==
    RagAnswered =>
        /\ Len(r_resp.results) = Len(results)
        /\ \A k \in 1..Len(results) : r_resp.results[k].idx = results[k].idx
        /\ IF rerank /\ \E k \in 1..Len(results) : results[k].has_llm_score
           THEN \A k \in 1..(Len(results) - 1) :
                   SortKey(results[k]) >= SortKey(results[k + 1])
           ELSE NonIncreasing(r_resp.results)

\* a candidate at 20% with an LLM score of 90 is placed ahead of an unscored
\* candidate at 45%
C9_Witness ==
    /\ RagAnswered
    /\ rerank
    /\ Len(results) = 2
    /\ results[1].has_llm_score /\ results[1].llm_score = 90
    /\ results[1].match_score = 2000
    /\ ~results[2].has_llm_score /\ results[2].match_score = 4500

\* C10: for top_k >= 1 and rerank disabled there are exactly min(top_k, n)
\* results, n the number of candidates clearing the floor in effect; they are
\* the highest-similarity ones, in non-increasing similarity order.
C10_TopK ==
    (RagAnswered /\ top_k >= 1 /\ ~rerank) =>
        LET clear == Clearing(min_similarity)
            n == Cardinality(clear)
            rs == r_resp.results
        IN  /\ Len(rs) = (IF top_k < n THEN top_k ELSE n)
            /\ Cardinality(Returned) = Len(rs)
            /\ Returned \subseteq clear
            /\ \A k \in 1..Len(rs) : rs[k].similarity = sims[rs[k].idx]
            /\ NonIncreasing(rs)
            /\ \A i \in clear \ Returned :
                  \A k \in 1..Len(rs) : rs[k].similarity >= sims[i]

\* top_k = 2 over three jobs of which exactly one clears 0.30
C10_Witness ==
    /\ RagAnswered
    /\ ~rerank
    /\ top_k = 2
    /\ Len(sims) = 3
    /\ min_similarity = 30000
    /\ Cardinality(Clearing(30000)) = 1
    /\ Len(r_resp.results) = 1

-----------------------------------------------------------------------------
(* Failures during api_match and api_rag_search *)

\* C11: a failure of the external job provider during match (connection error,
\* timeout, HTTP error status, unreadable payload) is not fatal: the handler
\* answers with a success response built from the local jobs alone, no external
\* job is kept and external_matches is empty.
C11_ProviderFailureNotFatal ==
    (m_pc = "done" /\ fetch \in FetchFailures) =>
        /\ m_resp.status = 200
        /\ m_resp.kind \in {"no_jobs", "matches"}
        /\ n_external_jobs = 0
        /\ m_resp.body.external_matches = <<>>
        /\ \A k \in 1..Len(m_resp.body.matches) :
              m_resp.body.matches[k].source = "local"

\* the provider answers with an HTTP error status and a local job is returned
C11_Witness ==
    /\ m_pc = "done"
    /\ fetch = "http"
    /\ m_resp.kind = "matches"
    /\ Len(m_resp.body.local_matches) = 1
    /\ m_resp.body.matches = m_resp.body.local_matches

\* C12: when every embedder backend fails while the resume is embedded, match
\* answers with an error response, never with a success response.
C12_EmbedderUnavailableIsError ==
    (m_pc = "done" /\ resume_emb = Vec(OpenAiDim, TRUE)) => m_resp.kind = "error"

\* C14: a similarity computation over two vectors of different lengths ends
\* the request with an error response; the handler does not go on to the next
\* job.
C14_MismatchIsError ==
    (m_decision = "error") => (m_pc = "done" /\ m_resp.kind = "error")

\* C17: a request from which no resume can be resolved (no usable resume_text,
\* and no user_id or no stored resume for it) is answered with a 4xx status by
\* match and by rag_search, before any collaborator is called.
C17_MissingResumeIs4xx ==
    /\ (m_pc = "done" /\ MatchResume(m_request) = "missing") =>
           (m_resp.status \in 400..499 /\ m_calls = {})
    /\ (r_pc = "done" /\ r_request.resume_text # "text"
           /\ ~(r_request.user_id /\ r_request.stored)) =>
           (r_resp.status \in 400..499 /\ r_calls = {})

-----------------------------------------------------------------------------
(* Claims about the embedding cache, checked under SpecCache *)

\* C15: for a text that is not empty, two successive calls of
\* cached_get_embedding with no eviction or clear in between return the same
\* vector, and get_embedding is called once.
C15_CacheIdempotence ==
    \A t \in CacheTexts :
        (Len(t) > 0 /\ c_log[t].calls >= 2) =>
            /\ c_log[t].embedder = 1
            /\ Cardinality(c_log[t].vecs) = 1

\* the second call with "a" is answered from the cache with a Vertex vector
C15_Witness ==
    /\ c_log[<<"a">>].calls = 2
    /\ c_last.text = <<"a">>
    /\ c_last.hit
    /\ c_last.vec = Vec(VertexDim, FALSE)

\* the length of the vectors of the backend in use: Vertex when USE_VERTEX
DimInUse(b) == IF b.use_vertex THEN VertexDim ELSE OpenAiDim

\* C16: for an empty or blank text the lookup returns the zero vector whose
\* length is that of the backend in use, and no backend request is made.
C16_BlankIsZeroOfBackendDim ==
    (c_last.made /\ ~StripNonEmpty(c_last.text)) =>
        /\ c_last.vec = Vec(DimInUse(c_last.b), TRUE)
        /\ c_last.requests = 0

-----------------------------------------------------------------------------
(* Claims about the external fetch of api_match, checked under SpecFetch *)

\* C13: whenever no generator wrote the text chat_complete returned, or the
\* cleaned text is shorter than 3 characters, the query sent to the provider is
\* the one the keyword heuristic derives from the resume (the placeholder when
\* the heuristic finds nothing).
C13_FallbackIsHeuristic ==
    (handler = "match" /\ f_chat.made /\ (~f_chat.generated \/ f_chat.short)) =>
        query = HeuristicQuery(f_resume)

\* the places, among the first upto items of the payload, of the complete
\* items classified as c
PlacesUpTo(c, upto) ==
    { k \in 1..Len(Take(f_items, upto)) : ItemClass[f_items[k]] = c }

\* the n smallest members of a set of places
Smallest(places, n) ==
    { k \in places : Cardinality({ j \in places : j < k }) < n }

\* external_jobs is the first CompanyCap of the places company, in order, and
\* then the first OtherCap of the places other, in order
ListedFrom(company, other) ==
    LET n == Len(external_jobs)
        nc == Cardinality(Smallest(company, CompanyCap))
    IN  /\ n = nc + Cardinality(Smallest(other, OtherCap))
        /\ n <= CompanyCap + OtherCap
        /\ { external_jobs[k].id : k \in 1..nc } = Smallest(company, CompanyCap)
        /\ { external_jobs[k].id : k \in (nc + 1)..n } = Smallest(other, OtherCap)
        /\ \A k \in 1..n :
              external_jobs[k].source = (IF k <= nc THEN "company" ELSE "other")
        /\ \A k \in 1..(n - 1) :
              k # nc => external_jobs[k].id < external_jobs[k + 1].id

\* C18 as stated: the list is drawn from all the items of the payload.
C18_CandidateListAsStated ==
    (handler = "match" /\ f_outcome = "ok") =>
        ListedFrom(PlacesUpTo("company", Len(f_items)), PlacesUpTo("other", Len(f_items)))

\* C18: when the fetch completes, external_jobs is the first (at most 10)
\* company-site items followed by the first (at most 5) aggregator items, both
\* taken among the first 20 items of the payload and in the order of the
\* payload; only items with a title and a description are listed, and the
\* list has at most 15 entries.
C18_CandidateList ==
    (handler = "match" /\ f_outcome = "ok") =>
        ListedFrom(PlacesUpTo("company", ItemsCap), PlacesUpTo("other", ItemsCap))

\* eleven company-site items and six aggregator items give a list of 15
C18_Witness ==
    /\ handler = "match"
    /\ f_outcome = "ok"
    /\ Len(f_items) = (CompanyCap + 1) + (OtherCap + 1)
    /\ Len(external_jobs) = CompanyCap + OtherCap
    /\ external_jobs[CompanyCap].source = "company"
    /\ external_jobs[CompanyCap + 1].source = "other"

-----------------------------------------------------------------------------
(* Claim about api_submit_answers, checked under SpecSubmit *)

\* the validation output is not the expected structure: it is not JSON, it is
\* JSON but not an object, or it is an object whose score is not numeric
Malformed(out) ==
    \/ ~IsJsonObject(out)
    \/ ScoreMember(out) # "absent" /\ ~IsNumeric(ScoreMember(out))

\* C19: whenever the validation output for an answer is malformed, the answer
\* gets the default score 70, the request succeeds and the application is
\* saved.
C19_MalformedValidationNotFatal ==
    (s_pc = "done" /\ \E k \in 1..Len(s_outs) : Malformed(s_outs[k])) =>
        /\ s_resp.status = 200
        /\ saved
        /\ \A k \in 1..Len(s_outs) :
              Malformed(s_outs[k]) =>
                  (k <= Len(s_results) /\ s_results[k] = DefaultScore)

-----------------------------------------------------------------------------
(* Claim about get_secret, checked under SpecSecret *)

\* C20: get_secret returns the environment variable named secret_id when it
\* is set, and Secret Manager is not contacted; otherwise, when the secret
\* cannot be resolved (no project, secret not found, API error), it raises if
\* required is true and returns default if required is false.
C20_GetSecret ==
    g_last.made =>
        /\ ~g_last.env.none =>
              (~g_last.raised /\ g_last.value = g_last.env /\ ~g_last.contacted)
        /\ (g_last.env.none /\ (~g_last.project \/ g_last.manager # "payload")) =>
              IF g_last.args.required THEN g_last.raised
              ELSE ~g_last.raised /\ g_last.value = g_last.args.default

-----------------------------------------------------------------------------
(* Claims C21 to C30 *)

\* the response holds braces, and its span from the first "{" to the last "}"
\* is not a JSON object or the score of the object is not a number
ParseFails(text) ==
    /\ Has(text, "{") /\ Has(text, "}")
    /\ \/ ~IsJsonObject(JsonStr(text))
       \/ ScoreMember(JsonStr(text)) \notin { "absent", "Sn" }
          /\ ~IsNumeric(ScoreMember(JsonStr(text)))

\* C21: with rerank enabled, an entry whose rerank response fails to parse (it
\* holds braces but the span from the first "{" to the last "}" is not valid
\* JSON, or its score cannot be read as a number) has the raw response text as
\* its explanation and no llm_score.
C21_ParseFailureKeepsRawText ==
    rerank =>
        \A k \in 1..Len(results) :
            LET o == OutcomeOf(results[k]) IN
            (~o.raised /\ ParseFails(o.text)) =>
                /\ results[k].match_explanation = o.text
                /\ ~results[k].has_llm_score

\* the external fetch ended in a failure: the request failed, or the payload or
\* one of its items had not the shape the loop expects
FetchFailed == f_pc = "done" /\ f_outcome \in FetchFailures

\* C22: in match and in rag_search, a failure at any point of the external
\* fetch, a failure while an item is normalised after earlier ones were
\* included, leaves no external job for the request.
C22_FailedFetchLeavesNoExternalJobs ==
    FetchFailed => external_jobs = <<>>

\* C23: when the filtered set of a match response is empty although at least
\* one candidate was scored, the highest match the message reports is the
\* maximum similarity over the scored candidates, local and external together.
C23_MessageReportsBestScore ==
    Answered =>
        LET scored == local_matches \o external_matches IN
        (Len(m_resp.body.matches) = 0 /\ Len(scored) > 0) =>
            /\ m_resp.body.message.kind = "below_threshold"
            /\ \A k \in 1..Len(scored) :
                  scored[k].similarity <= m_resp.body.message.top_sim

\* C28: every entry of the combined list of a match response reaches
\* threshold_pct, or is a local match of at least 30% in a response where no
\* local match reaches threshold_pct; no external match below threshold_pct and
\* no match below 30% is returned.
C28_ReturnedEntriesClearTheirFloor ==
    Answered =>
        LET thr == m_resp.body.threshold_pct
            ms == m_resp.body.matches
        IN  \A k \in 1..Len(ms) :
               \/ ms[k].similarity >= thr
               \/ /\ ms[k].source = "local"
                  /\ ms[k].similarity >= BackfillFloorPct
                  /\ \A n \in 1..Len(local_matches) : local_matches[n].similarity < thr

\* threshold 50%: a local match of 35% is returned although it is below the
\* threshold, with the external match of 60%, while the external match of 45%
\* is not returned
C28_Witness ==
    /\ Answered
    /\ m_resp.body.threshold_pct = 5000
    /\ Len(m_resp.body.matches) = 2
    /\ m_resp.body.matches[1] = Match("local", m_resp.body.matches[1].id, 3500)
    /\ m_resp.body.matches[2].source = "external"
    /\ Len(external_matches) = 2
    /\ external_matches[2].similarity = 4500

\* C25: whenever the Vertex generation call of chat_complete raises and an
\* OpenAI client is configured, the OpenAI backend is called before a static
\* or keyword default is returned.
C25_OpenAiTriedAfterVertexRaises ==
    (f_chat.made /\ f_chat.vertex_raised /\ f_chat.openai_client) =>
        f_chat.openai_called

\* the via of an item holds "company", "direct", or the company name the item
\* carries
ViaNamesCompany(item) ==
    LET via == Lower(item.via.s) IN
    \/ Contains(via, << "c", "o", "m", "p", "a", "n", "y" >>)
    \/ Contains(via, << "d", "i", "r", "e", "c", "t" >>)
    \/ /\ item.company_name.kind = "str"
       /\ Len(item.company_name.s) > 0
       /\ Contains(via, Lower(item.company_name.s))

\* C24: in match, an item is classified company-site only if its via holds
\* "company", "direct" or the company name of the item; an item whose via
\* holds none of these, an item with no company name included, is classified
\* aggregator-sourced.
C24_ClassifiedByVia ==
    (handler = "match" /\ f_outcome = "ok") =>
        \A k \in 1..Len(external_jobs) :
            external_jobs[k].source =
                (IF ViaNamesCompany(ItemOf(f_items[external_jobs[k].id]))
                 THEN "company" ELSE "other")

\* C26: two request threads that look up the same uncached text at the same
\* time cause a single call of the embedder (never two calls of get_embedding
\* for one text in flight), and a thread that looked the text up while the
\* other one was embedding it receives the vector the cache holds.
C26_OneEmbedderCallUnderConcurrency ==
    /\ \A t \in Threads : \A u \in Threads \ {t} :
          (c_threads[t].pc = "embedding" /\ c_threads[u].pc = "embedding")
              => c_threads[t].text # c_threads[u].text
    /\ \A t \in Threads :
          (c_threads[t].pc = "idle" /\ c_threads[t].raced)
              => (~c_threads[t].called /\ c_threads[t].vec = c_threads[t].kept)

\* C27: a request for a text that has content, made while a backend of the
\* embedder works, obtains a real embedding, also when an earlier request for
\* the same text was made while every backend failed.
C27_FailedEmbeddingNotRetained ==
    ( /\ c_last.made
      /\ StripNonEmpty(c_last.text)
      /\ \/ c_last.b.use_vertex /\ c_last.b.vertex_ok
         \/ c_last.b.openai_ok )
        => ~c_last.vec.zero

\* C29: generate-questions for an existing job, called with a JSON object as
\* payload, answers with at least 5 questions: a parsed list of fewer than 5
\* is topped up to 5, and a failed generation or parse gives the 5 fallback
\* questions.
C29_AtLeastFiveQuestions ==
    (q_last.made /\ q_last.job /\ q_last.body = "object") =>
        /\ q_last.status = 200
        /\ Len(q_last.questions) >= 5
        /\ (q_last.chat.raised \/ ParsedQuestions(q_last.chat.text).raised)
              => q_last.questions = FallbackQuestions

\* C30: a tool called without its required argument (absent or empty)
\* answers with status 400 and makes no outbound request.
C30_MissingArgumentIs400 ==
    (t_last.made /\ t_last.arg # "text") =>
        /\ t_last.resp.status = 400
        /\ ~t_last.outbound

=============================================================================
